---------------------------- MODULE Spec2Model ----------------------------
(***************************************************************************)
(* A model of the physics / circuit teaching simulator: the entity store   *)
(* (EntityRepository), the entity factory, the simulation engine and the   *)
(* two simulation strategies.                                              *)
(*                                                                         *)
(* JavaScript numbers are modelled as exact rationals <<n, d>> (d > 0, in  *)
(* lowest terms), so that equal numbers are equal values.                  *)
(***************************************************************************)
EXTENDS Integers, Sequences, FiniteSets, TLC

VARIABLES
    entities,   \* EntityRepository.entities: the Map's values, insertion order
    nextId,     \* EntityRepository.nextId
    strategy,   \* SimulationEngine.strategy: "base", "physics" or "circuit"
    observers,  \* SimulationEngine.observers: the registered observers, in order
    isRunning,  \* SimulationEngine.isRunning
    lastTime,   \* SimulationEngine.lastTime (milliseconds)
    now,        \* the wall clock read by Date.now(), in half seconds
    op,         \* the operation that ran last
    trace,      \* what that operation called, in order: strategy and observer calls
    threw,      \* whether that operation raised an error
    ret,        \* what that operation returned (0: nothing)
    issued,     \* the ids create() has returned since the last clear()
    lastRun,    \* when start() or a running update() was last called (milliseconds)
    ui          \* the React state of the page: mode, isRunning, and whether the mode
                \* effect is still to run

vars == <<entities, nextId, strategy, observers, isRunning, lastTime, now,
          op, trace, threw, ret, issued, lastRun, ui>>

---------------------------------------------------------------------------
(* Bounds of the model. *)

\* create() is not called once nextId exceeds this.
MaxEntities == 2
\* The wall clock stops after this many half seconds.
MaxClock == 2
\* addObserver() is not called once this many observers are registered.
MaxObservers == 2

---------------------------------------------------------------------------
(* Exact rational arithmetic standing for JavaScript's numbers. *)

Abs(i) == IF i < 0 THEN -i ELSE i

RECURSIVE GCD(_, _)
GCD(a, b) == IF b = 0 THEN a ELSE GCD(b, a % b)

\* The rational n/d (d # 0) in lowest terms with a positive denominator.
Rat(n, d) ==
    LET g == GCD(Abs(n), Abs(d))
        s == IF d < 0 THEN -1 ELSE 1
    IN  <<(s * n) \div g, (s * d) \div g>>

R(i) == <<i, 1>>

RAdd(a, b) == Rat(a[1] * b[2] + b[1] * a[2], a[2] * b[2])
RSub(a, b) == Rat(a[1] * b[2] - b[1] * a[2], a[2] * b[2])
RMul(a, b) == Rat(a[1] * b[1], a[2] * b[2])
RDiv(a, b) == Rat(a[1] * b[2], a[2] * b[1])
RLt(a, b) == a[1] * b[2] < b[1] * a[2]
RLe(a, b) == a[1] * b[2] <= b[1] * a[2]

\* Math.sqrt on the rationals that have a rational root.
ISqrt(n) == CHOOSE s \in 0..n : s * s = n
RSqrt(a) == <<ISqrt(a[1]), ISqrt(a[2])>>

---------------------------------------------------------------------------
(* Entities and components (factory.js). *)

NoComponents == [n \in {} |-> 0]

Entity(id, type) == [id |-> id, type |-> type, components |-> NoComponents]

addComponent(e, name, component) ==
    [e EXCEPT !.components =
        [n \in (DOMAIN e.components) \cup {name} |->
            IF n = name THEN component ELSE e.components[n]]]

hasComponent(e, name) == name \in DOMAIN e.components

\* The keys `for (const n in names)` enumerates for an array: its indices
\* 0, 1, ... as strings, in ascending order.
KeysIn(names) == [k \in 1..Len(names) |-> ToString(k - 1)]

\* hasAll(names): false at the first enumerated key n with no component
\* under n, true when the loop ends.
hasAll(e, names) == \A k \in 1..Len(names) : hasComponent(e, KeysIn(names)[k])

getComponent(e, name) == e.components[name]

TransformComponent(x, y) == [x |-> x, y |-> y, rotation |-> 0]

MobileByUserComponent == [selected |-> FALSE]

PhysicsComponent(mass) ==
    [mass |-> mass, vx |-> R(-50), vy |-> R(0), fx |-> R(0), fy |-> R(0)]

PhysicsCollisionComponent(radius) == [radius |-> radius]

RenderComponent(shape, color, size) == [shape |-> shape, color |-> color, size |-> size]

CircuitComponent(componentType, value) ==
    [componentType |-> componentType, value |-> value,
     current |-> R(0), voltage |-> R(0), connections |-> <<>>]

\* A wire that reads both of its ends from `start`.
CircuitWireComponent_BothFromStart(start, end) ==
    [startx |-> getComponent(start, "transform").x,
     starty |-> getComponent(start, "transform").y,
     endx |-> getComponent(start, "transform").x,
     endy |-> getComponent(start, "transform").y]

CircuitWireComponent(start, end) ==
    [startx |-> getComponent(start, "transform").x,
     starty |-> getComponent(start, "transform").y,
     endx |-> getComponent(end, "transform").x,
     endy |-> getComponent(end, "transform").y]

---------------------------------------------------------------------------
(* Sequence helpers. *)

RECURSIVE SumOver(_, _, _)
\* The sum of f[k] for k in 1..n, added left to right from 0.
SumOver(f, n, acc) == IF n = 0 THEN acc ELSE RAdd(SumOver(f, n - 1, acc), f[n])

---------------------------------------------------------------------------
(* CircuitSimulationStrategy (strats.js). *)

\* The first pass: what one entity adds to totalVoltage.
VoltageOf(e) ==
    IF hasComponent(e, "circuit") /\ getComponent(e, "circuit").componentType = "battery"
    THEN getComponent(e, "circuit").value
    ELSE R(0)

\* Mutant: the resistance pass forgets to test the componentType.
ResistanceOf_AnyType(e) ==
    IF hasComponent(e, "circuit") THEN getComponent(e, "circuit").value ELSE R(0)

\* The first pass: what one entity adds to totalResistance.
ResistanceOf(e) ==
    IF hasComponent(e, "circuit") /\ getComponent(e, "circuit").componentType = "resistor"
    THEN getComponent(e, "circuit").value
    ELSE R(0)

TotalVoltage(ents) == SumOver([k \in 1..Len(ents) |-> VoltageOf(ents[k])], Len(ents), R(0))

TotalResistance(ents) ==
    SumOver([k \in 1..Len(ents) |-> ResistanceOf(ents[k])], Len(ents), R(0))

\* const current = totalResistance > 0 ? totalVoltage / totalResistance : 0
SolveCurrent(totalVoltage, totalResistance) ==
    IF RLt(R(0), totalResistance) THEN RDiv(totalVoltage, totalResistance) ELSE R(0)

\* Mutant: the second pass writes the voltage of batteries too.
CircuitApply_AllVoltages(e, current) ==
    IF ~hasComponent(e, "circuit") THEN e
    ELSE [e EXCEPT !.components.circuit.current = current,
                   !.components.circuit.voltage =
                       RMul(current, getComponent(e, "circuit").value)]

\* The second pass on one entity.
CircuitApply(e, current) ==
    IF ~hasComponent(e, "circuit") THEN e
    ELSE LET circuit == getComponent(e, "circuit")
             c1 == [circuit EXCEPT !.current = current]
             c2 == IF c1.componentType = "resistor"
                   THEN [c1 EXCEPT !.voltage = RMul(current, c1.value)]
                   ELSE c1
         IN  [e EXCEPT !.components.circuit = c2]

\* Mutant: the solved current is integrated over deltaTime.
CircuitUpdate_TimesDeltaTime(ents, deltaTime) ==
    LET current == RMul(SolveCurrent(TotalVoltage(ents), TotalResistance(ents)), deltaTime)
    IN  [k \in 1..Len(ents) |-> CircuitApply(ents[k], current)]

CircuitUpdate(ents, deltaTime) ==
    LET current == SolveCurrent(TotalVoltage(ents), TotalResistance(ents))
    IN  [k \in 1..Len(ents) |-> CircuitApply(ents[k], current)]

---------------------------------------------------------------------------
(* PhysicsSimulationStrategy (strats.js).  The entity list is a sequence    *)
(* and an entity is named by its index, so that entityA and entityB may be  *)
(* the same object, as they are in the code.                                *)

\* this.gravity
Gravity == 98

\* The world bounds of update().
GroundY == 550
RightWallX == 800
LeftWallX == 10

SetTransform(ents, i, x, y) ==
    [ents EXCEPT ![i].components.transform.x = x, ![i].components.transform.y = y]

SetVelocity(ents, i, vx, vy) ==
    [ents EXCEPT ![i].components.physics.vx = vx, ![i].components.physics.vy = vy]

\* The distance between the centers of ents[a] and ents[b].
Distance(ents, a, b) ==
    LET dx == RSub(getComponent(ents[b], "transform").x, getComponent(ents[a], "transform").x)
        dy == RSub(getComponent(ents[b], "transform").y, getComponent(ents[a], "transform").y)
    IN  RSqrt(RAdd(RMul(dx, dx), RMul(dy, dy)))

collides(ents, a, b) ==
    RLt(Distance(ents, a, b),
        RAdd(getComponent(ents[a], "tangible").radius, getComponent(ents[b], "tangible").radius))

\* The body is moved by its half of the overlap only, as against a mobile
\* body.
ResolveImmobile_HalfMove(ents, a, nx, ny, separationX, separationY) ==
    LET tA == getComponent(ents[a], "transform")
        moved == SetTransform(ents, a, RSub(tA.x, separationX), RSub(tA.y, separationY))
        pA == getComponent(ents[a], "physics")
        velocityAlongNormal ==
            RAdd(RMul(RSub(R(0), pA.vx), nx), RMul(RSub(R(0), pA.vy), ny))
        impulse == RMul(R(-2), velocityAlongNormal)
    IN  IF RLt(R(0), velocityAlongNormal) THEN moved
        ELSE SetVelocity(moved, a, RSub(pA.vx, RMul(impulse, nx)),
                                   RSub(pA.vy, RMul(impulse, ny)))

\* The branch of resolveCollision for an entityB without a physics component.
ResolveImmobile(ents, a, nx, ny, separationX, separationY) ==
    LET tA == getComponent(ents[a], "transform")
        moved == SetTransform(ents, a, RSub(tA.x, RMul(separationX, R(2))),
                                       RSub(tA.y, RMul(separationY, R(2))))
        pA == getComponent(ents[a], "physics")
        velocityAlongNormal ==
            RAdd(RMul(RSub(R(0), pA.vx), nx), RMul(RSub(R(0), pA.vy), ny))
        impulse == RMul(R(-2), velocityAlongNormal)
    IN  IF RLt(R(0), velocityAlongNormal) THEN moved
        ELSE SetVelocity(moved, a, RSub(pA.vx, RMul(impulse, nx)),
                                   RSub(pA.vy, RMul(impulse, ny)))

\* Each body's velocity change is scaled by its own mass, not the other's.
ResolveMobile_OwnMass(ents, a, b, nx, ny, separationX, separationY) ==
    LET tA == getComponent(ents[a], "transform")
        m1 == SetTransform(ents, a, RSub(tA.x, separationX), RSub(tA.y, separationY))
        tB == getComponent(m1[b], "transform")
        m2 == SetTransform(m1, b, RAdd(tB.x, separationX), RAdd(tB.y, separationY))
        pA == getComponent(m2[a], "physics")
        pB == getComponent(m2[b], "physics")
        velocityAlongNormal ==
            RAdd(RMul(RSub(pB.vx, pA.vx), nx), RMul(RSub(pB.vy, pA.vy), ny))
        impulseScalar == RDiv(RMul(R(-2), velocityAlongNormal), RAdd(pA.mass, pB.mass))
        v1 == SetVelocity(m2, a, RSub(pA.vx, RMul(RMul(impulseScalar, nx), pA.mass)),
                                 RSub(pA.vy, RMul(RMul(impulseScalar, ny), pA.mass)))
        pB2 == getComponent(v1[b], "physics")
    IN  IF RLt(R(0), velocityAlongNormal) THEN m2
        ELSE SetVelocity(v1, b, RAdd(pB2.vx, RMul(RMul(impulseScalar, nx), pB.mass)),
                                RAdd(pB2.vy, RMul(RMul(impulseScalar, ny), pB.mass)))

\* The branch of resolveCollision for two entities with a physics component.
ResolveMobile(ents, a, b, nx, ny, separationX, separationY) ==
    LET tA == getComponent(ents[a], "transform")
        m1 == SetTransform(ents, a, RSub(tA.x, separationX), RSub(tA.y, separationY))
        tB == getComponent(m1[b], "transform")
        m2 == SetTransform(m1, b, RAdd(tB.x, separationX), RAdd(tB.y, separationY))
        pA == getComponent(m2[a], "physics")
        pB == getComponent(m2[b], "physics")
        velocityAlongNormal ==
            RAdd(RMul(RSub(pB.vx, pA.vx), nx), RMul(RSub(pB.vy, pA.vy), ny))
        impulse == RMul(R(-2), velocityAlongNormal)
        impulseScalar == RDiv(impulse, RAdd(pA.mass, pB.mass))
        impulseX == RMul(impulseScalar, nx)
        impulseY == RMul(impulseScalar, ny)
        v1 == SetVelocity(m2, a, RSub(pA.vx, RMul(impulseX, pB.mass)),
                                 RSub(pA.vy, RMul(impulseY, pB.mass)))
        pB2 == getComponent(v1[b], "physics")
    IN  IF RLt(R(0), velocityAlongNormal) THEN m2
        ELSE SetVelocity(v1, b, RAdd(pB2.vx, RMul(impulseX, pA.mass)),
                                RAdd(pB2.vy, RMul(impulseY, pA.mass)))

\* Coincident centers are pushed apart along the x axis instead of being
\* left alone.
resolveCollision_PushApart(ents, a, b) ==
    LET tA == getComponent(ents[a], "transform")
        distance == Distance(ents, a, b)
        overlap == RSub(RAdd(getComponent(ents[a], "tangible").radius,
                             getComponent(ents[b], "tangible").radius), distance)
        nx == RDiv(RSub(getComponent(ents[b], "transform").x, tA.x), distance)
        ny == RDiv(RSub(getComponent(ents[b], "transform").y, tA.y), distance)
        separationX == RMul(RMul(nx, overlap), <<1, 2>>)
        separationY == RMul(RMul(ny, overlap), <<1, 2>>)
    IN  IF distance = R(0) THEN SetTransform(ents, a, RSub(tA.x, RMul(overlap, <<1, 2>>)), tA.y)
        ELSE IF ~hasComponent(ents[b], "physics")
             THEN ResolveImmobile(ents, a, nx, ny, separationX, separationY)
             ELSE ResolveMobile(ents, a, b, nx, ny, separationX, separationY)

resolveCollision(ents, a, b) ==
    LET tA == getComponent(ents[a], "transform")
        tB == getComponent(ents[b], "transform")
        dx == RSub(tB.x, tA.x)
        dy == RSub(tB.y, tA.y)
        distance == Distance(ents, a, b)
        nx == RDiv(dx, distance)
        ny == RDiv(dy, distance)
        overlap == RSub(RAdd(getComponent(ents[a], "tangible").radius,
                             getComponent(ents[b], "tangible").radius), distance)
        separationX == RMul(RMul(nx, overlap), <<1, 2>>)
        separationY == RMul(RMul(ny, overlap), <<1, 2>>)
    IN  IF distance = R(0) THEN ents
        ELSE IF ~hasComponent(ents[b], "physics")
             THEN ResolveImmobile(ents, a, nx, ny, separationX, separationY)
             ELSE ResolveMobile(ents, a, b, nx, ny, separationX, separationY)

\* The test that opens the body of the inner forEach of update(): TRUE when
\* the entity e = ents[j] is passed over for entity = ents[i].
SkipsPair(ents, i, j) ==
    ~(ents[i].id = ents[j].id) \/ ~hasComponent(ents[j], "tangible")

RECURSIVE CollisionLoop(_, _, _)
\* The inner forEach of update() for entity ents[i], from e = ents[j] on.
CollisionLoop(ents, i, j) ==
    IF j > Len(ents) THEN ents
    ELSE IF SkipsPair(ents, i, j) THEN CollisionLoop(ents, i, j + 1)
    ELSE IF collides(ents, i, j) THEN CollisionLoop(resolveCollision(ents, i, j), i, j + 1)
    ELSE CollisionLoop(ents, i, j + 1)

\* Explicit Euler: the position advances with the velocity the step began with.
Integrate_PositionFirst(ents, i, deltaTime) ==
    LET p == getComponent(ents[i], "physics")
        t == getComponent(ents[i], "transform")
        fy == RAdd(p.fy, RMul(p.mass, R(Gravity)))
    IN  [ents EXCEPT ![i].components.physics =
                         [p EXCEPT !.fy = fy,
                                   !.vx = RAdd(p.vx, RMul(RDiv(p.fx, p.mass), deltaTime)),
                                   !.vy = RAdd(p.vy, RMul(RDiv(fy, p.mass), deltaTime))],
                     ![i].components.transform =
                         [t EXCEPT !.x = RAdd(t.x, RMul(p.vx, deltaTime)),
                                   !.y = RAdd(t.y, RMul(p.vy, deltaTime))]]

\* Gravity, velocity and position of ents[i].
Integrate(ents, i, deltaTime) ==
    LET p == getComponent(ents[i], "physics")
        t == getComponent(ents[i], "transform")
        fy == RAdd(p.fy, RMul(p.mass, R(Gravity)))
        vx == RAdd(p.vx, RMul(RDiv(p.fx, p.mass), deltaTime))
        vy == RAdd(p.vy, RMul(RDiv(fy, p.mass), deltaTime))
    IN  [ents EXCEPT ![i].components.physics = [p EXCEPT !.fy = fy, !.vx = vx, !.vy = vy],
                     ![i].components.transform =
                         [t EXCEPT !.x = RAdd(t.x, RMul(vx, deltaTime)),
                                   !.y = RAdd(t.y, RMul(vy, deltaTime))]]

\* A ground that takes half of the speed of the bounce.
Ground_Damped(ents, i) ==
    IF RLe(R(GroundY), getComponent(ents[i], "transform").y)
    THEN [ents EXCEPT ![i].components.transform.y = R(GroundY),
                      ![i].components.physics.vy = RDiv(@, R(-2))]
    ELSE ents

\* The ground collision of ents[i].
Ground(ents, i) ==
    IF RLe(R(GroundY), getComponent(ents[i], "transform").y)
    THEN [ents EXCEPT ![i].components.transform.y = R(GroundY),
                      ![i].components.physics.vy = RMul(@, R(-1))]
    ELSE ents


\* A world without a left wall.
Walls_RightOnly(ents, i) ==
    IF RLe(R(RightWallX), getComponent(ents[i], "transform").x)
    THEN [ents EXCEPT ![i].components.transform.x = R(RightWallX),
                      ![i].components.physics.vx = RMul(@, R(-1))]
    ELSE ents

\* The two wall collisions of ents[i].
Walls(ents, i) ==
    LET right == IF RLe(R(RightWallX), getComponent(ents[i], "transform").x)
                 THEN [ents EXCEPT ![i].components.transform.x = R(RightWallX),
                                   ![i].components.physics.vx = RMul(@, R(-1))]
                 ELSE ents
    IN  IF RLe(getComponent(right[i], "transform").x, R(LeftWallX))
        THEN [right EXCEPT ![i].components.transform.x = R(LeftWallX),
                           ![i].components.physics.vx = RMul(@, R(-1))]
        ELSE right


\* Only the horizontal force is reset: the weight stays in fy.
ResetForces_OnlyFx(ents, i) ==
    [ents EXCEPT ![i].components.physics.fx = R(0)]

ResetForces(ents, i) ==
    [ents EXCEPT ![i].components.physics.fx = R(0), ![i].components.physics.fy = R(0)]


\* An update under which whatever has a transform and no physics sinks.
PhysicsStep_PinsSink(ents, i, deltaTime) ==
    IF ~hasComponent(ents[i], "physics") /\ hasComponent(ents[i], "transform")
    THEN SetTransform(ents, i, getComponent(ents[i], "transform").x,
                      RAdd(getComponent(ents[i], "transform").y, RMul(R(Gravity), deltaTime)))
    ELSE IF ~hasComponent(ents[i], "physics") \/ ~hasComponent(ents[i], "transform") THEN ents
    ELSE LET moved == Integrate(ents, i, deltaTime)
             hit == IF hasComponent(moved[i], "tangible")
                    THEN CollisionLoop(moved, i, 1)
                    ELSE moved
         IN  ResetForces(Walls(Ground(hit, i), i), i)

\* The body of the outer forEach of update() for entity ents[i].
PhysicsStep(ents, i, deltaTime) ==
    IF ~hasComponent(ents[i], "physics") \/ ~hasComponent(ents[i], "transform") THEN ents
    ELSE LET moved == Integrate(ents, i, deltaTime)
             hit == IF hasComponent(moved[i], "tangible")
                    THEN CollisionLoop(moved, i, 1)
                    ELSE moved
         IN  ResetForces(Walls(Ground(hit, i), i), i)

RECURSIVE PhysicsLoop(_, _, _)
PhysicsLoop(ents, i, deltaTime) ==
    IF i > Len(ents) THEN ents
    ELSE PhysicsLoop(PhysicsStep(ents, i, deltaTime), i + 1, deltaTime)

PhysicsUpdate(ents, deltaTime) == PhysicsLoop(ents, 1, deltaTime)

---------------------------------------------------------------------------
(* SimulationStrategy: dynamic dispatch on the engine's strategy. *)

Strategies == {"base", "physics", "circuit"}

\* Mutant: the base update returns without doing anything.
StrategyThrows_Never(s) == FALSE

\* SimulationStrategy.update throws; the two subclasses override it.
StrategyThrows(s) == s = "base"

StrategyUpdate(s, ents, deltaTime) ==
    CASE s = "physics" -> PhysicsUpdate(ents, deltaTime)
      [] s = "circuit" -> CircuitUpdate(ents, deltaTime)
      [] OTHER -> ents

---------------------------------------------------------------------------
(* EntityRepository (App.js). *)

\* Mutant: create() forgets to advance nextId.
NextIdAfterCreate_Stuck(n) == n

\* this.nextId++ in create(): the value nextId has afterwards.
NextIdAfterCreate(n) == n + 1

\* Map.set(entity.id, entity): an existing key keeps its place.
MapSet(ents, e) ==
    IF \E k \in 1..Len(ents) : ents[k].id = e.id
    THEN [k \in 1..Len(ents) |-> IF ents[k].id = e.id THEN e ELSE ents[k]]
    ELSE Append(ents, e)

\* Map.delete(id)
MapDelete(ents, id) == SelectSeq(ents, LAMBDA e : e.id # id)

\* Mutant: clear() empties the map and keeps nextId.
Cleared_KeepsNextId == [entities |-> <<>>, nextId |-> nextId]

\* clear(): the store afterwards.
Cleared == [entities |-> <<>>, nextId |-> 1]

findByType(ents, type) == SelectSeq(ents, LAMBDA e : e.type = type)

\* What every operation leaves alone unless it says otherwise.
EngineUnchanged == UNCHANGED <<strategy, observers, isRunning, lastTime, now, lastRun, ui>>

\* repo.create(type) followed by the addComponent calls that make it `made`.
Registered(name, made, calls) ==
    /\ entities' = MapSet(entities, made)
    /\ nextId' = NextIdAfterCreate(nextId)
    /\ issued' = Append(issued, made.id)
    /\ op' = name
    /\ trace' = calls
    /\ threw' = FALSE
    /\ ret' = made.id
    /\ EngineUnchanged

Register(name, made) == Registered(name, made, <<>>)

Create(type) == Register("create", Entity(nextId, type))

Remove(id) ==
    /\ entities' = MapDelete(entities, id)
    /\ op' = "remove"
    /\ trace' = <<>>
    /\ threw' = FALSE
    /\ ret' = 0
    /\ UNCHANGED <<nextId, issued>>
    /\ EngineUnchanged

Clear ==
    /\ entities' = Cleared.entities
    /\ nextId' = Cleared.nextId
    /\ issued' = <<>>
    /\ op' = "clear"
    /\ trace' = <<>>
    /\ threw' = FALSE
    /\ ret' = 0
    /\ EngineUnchanged

---------------------------------------------------------------------------
(* EntityFactory (factory.js). *)

Ball(id, x, y, mass) ==
    addComponent(addComponent(addComponent(addComponent(addComponent(
        Entity(id, "physics"),
        "transform", TransformComponent(x, y)),
        "physics", PhysicsComponent(mass)),
        "render", RenderComponent("circle", "#3b82f6", 20)),
        "tangible", PhysicsCollisionComponent(R(20))),
        "draggable", MobileByUserComponent)

\* A pin that is given a physics component as a ball is.
Pin_WithPhysics(id, x, y) ==
    addComponent(addComponent(addComponent(addComponent(addComponent(
        Entity(id, "physics"),
        "transform", TransformComponent(x, y)),
        "physics", PhysicsComponent(R(1))),
        "render", RenderComponent("circle", "#3b82f6", 10)),
        "tangible", PhysicsCollisionComponent(R(10))),
        "draggable", MobileByUserComponent)

Pin(id, x, y) ==
    addComponent(addComponent(addComponent(addComponent(
        Entity(id, "physics"),
        "transform", TransformComponent(x, y)),
        "render", RenderComponent("circle", "#3b82f6", 10)),
        "tangible", PhysicsCollisionComponent(R(10))),
        "draggable", MobileByUserComponent)

Resistor(id, x, y, resistance) ==
    addComponent(addComponent(addComponent(
        Entity(id, "circuit"),
        "transform", TransformComponent(x, y)),
        "circuit", CircuitComponent("resistor", resistance)),
        "render", RenderComponent("rect", "#ef4444", 40))

Battery(id, x, y, voltage) ==
    addComponent(addComponent(addComponent(
        Entity(id, "circuit"),
        "transform", TransformComponent(x, y)),
        "circuit", CircuitComponent("battery", voltage)),
        "render", RenderComponent("rect", "#22c55e", 40))

\* The wire entity before its wire component is constructed.
WireStub(id) ==
    addComponent(addComponent(
        Entity(id, "circuit"),
        "transform", TransformComponent(R(50), R(50))),
        "render", RenderComponent("line", "#7fe0dcff", 5))

Wire(id, start, end) == addComponent(WireStub(id), "wire", CircuitWireComponent(start, end))

\* A call of a factory operation with these arguments, on the store as it
\* is at the call.
FactoryCall(name, args) == [ev |-> name, who |-> args, seen |-> entities, dt |-> R(0)]

\* Mutant: the second branch is a plain else, so every other type makes a pin.
CreatePhysicsObject_ElsePin(x, y, mass, type) ==
    IF type = "Ball"
    THEN Registered("createPhysicsObject", Ball(nextId, x, y, mass),
                    <<FactoryCall("createPhysicsObject", <<type>>)>>)
    ELSE Registered("createPhysicsObject", Pin(nextId, x, y),
                    <<FactoryCall("createPhysicsObject", <<type>>)>>)

\* createPhysicsObject(repo, x, y, mass, type): a type that is neither 'Ball'
\* nor 'Pin' falls through both branches and the function returns undefined.
CreatePhysicsObject(x, y, mass, type) ==
    IF type = "Ball"
    THEN Registered("createPhysicsObject", Ball(nextId, x, y, mass),
                    <<FactoryCall("createPhysicsObject", <<type>>)>>)
    ELSE IF type = "Pin"
    THEN Registered("createPhysicsObject", Pin(nextId, x, y),
                    <<FactoryCall("createPhysicsObject", <<type>>)>>)
    ELSE /\ op' = "createPhysicsObject"
         /\ trace' = <<FactoryCall("createPhysicsObject", <<type>>)>>
         /\ threw' = FALSE
         /\ ret' = 0
         /\ UNCHANGED <<entities, nextId, issued>>
         /\ EngineUnchanged

CreateCircuitResistor(x, y, resistance) ==
    Registered("createCircuitResistor", Resistor(nextId, x, y, resistance),
               <<FactoryCall("createCircuitResistor", <<>>)>>)

CreateCircuitBattery(x, y, voltage) ==
    Registered("createCircuitBattery", Battery(nextId, x, y, voltage),
               <<FactoryCall("createCircuitBattery", <<>>)>>)

\* The entity is registered and given transform and render before the wire
\* component reads the transforms of start and end, which throws when one of
\* them has none.
CreateCircuitWire(start, end) ==
    IF hasComponent(start, "transform") /\ hasComponent(end, "transform")
    THEN Registered("createCircuitWire", Wire(nextId, start, end),
                    <<FactoryCall("createCircuitWire", <<start.id, end.id>>)>>)
    ELSE /\ entities' = MapSet(entities, WireStub(nextId))
         /\ nextId' = NextIdAfterCreate(nextId)
         /\ issued' = Append(issued, nextId)
         /\ op' = "createCircuitWire"
         /\ trace' = <<FactoryCall("createCircuitWire", <<start.id, end.id>>)>>
         /\ threw' = TRUE
         /\ ret' = 0
         /\ EngineUnchanged

---------------------------------------------------------------------------
(* SimulationEngine (App.js). *)

\* Date.now(), in milliseconds.
DateNow == 500 * now

\* const deltaTime = (currentTime - this.lastTime) / 1000
DeltaTime(currentTime, last) == Rat(currentTime - last, 1000)

StrategyCall(s, ents, deltaTime) ==
    [ev |-> "strategy", who |-> s, seen |-> ents, dt |-> deltaTime]

\* notifyObservers(): observer.update(this) for each observer in turn; the
\* renderer reads repository.getAll() of that moment.
NotifyObservers(obs, ents) ==
    [k \in 1..Len(obs) |-> [ev |-> "notify", who |-> obs[k], seen |-> ents, dt |-> R(0)]]

\* Mutant: update() without its isRunning guard.
UpdateSkips_Never == FALSE

\* The guard that opens update().
UpdateSkips == ~isRunning

\* Mutant: update() notifies the observers before it calls the strategy.
UpdateCalls_NotifyFirst(ents, after, deltaTime) ==
    NotifyObservers(observers, ents) \o <<StrategyCall(strategy, ents, deltaTime)>>

\* The calls a running update() makes, in order; after is the store the
\* strategy has left.
UpdateCalls(ents, after, deltaTime) ==
    <<StrategyCall(strategy, ents, deltaTime)>> \o NotifyObservers(observers, after)

\* Mutant: start() leaves lastTime as it was.
StartBaseline_Kept == lastTime

\* start(): the baseline the next deltaTime is measured from.
StartBaseline == DateNow

\* Mutant: reset() notifies the observers before it clears the store.
ResetCalls_BeforeClear(before, cleared) == NotifyObservers(observers, before)

\* reset(): the calls it makes after pause(); cleared is the store after clear().
ResetCalls(before, cleared) == NotifyObservers(observers, cleared)

\* Mutant: setStrategy also replaces the store by a new one.
SetStrategy_NewStore(s) ==
    /\ strategy' = s
    /\ entities' = <<>>
    /\ nextId' = 1
    /\ issued' = <<>>
    /\ op' = "setStrategy"
    /\ trace' = <<>>
    /\ threw' = FALSE
    /\ ret' = 0
    /\ UNCHANGED <<observers, isRunning, lastTime, now, lastRun, ui>>

SetStrategy(s) ==
    /\ strategy' = s
    /\ op' = "setStrategy"
    /\ trace' = <<>>
    /\ threw' = FALSE
    /\ ret' = 0
    /\ UNCHANGED <<entities, nextId, issued, observers, isRunning, lastTime, now, lastRun, ui>>

AddObserver ==
    /\ Len(observers) < MaxObservers
    /\ observers' = Append(observers, Len(observers) + 1)
    /\ op' = "addObserver"
    /\ trace' = <<>>
    /\ threw' = FALSE
    /\ ret' = 0
    /\ UNCHANGED <<entities, nextId, issued, strategy, isRunning, lastTime, now, lastRun, ui>>

Update ==
    /\ op' = "update"
    /\ ret' = 0
    /\ UNCHANGED <<nextId, issued, strategy, observers, isRunning, now, ui>>
    /\ IF UpdateSkips
       THEN /\ trace' = <<>>
            /\ threw' = FALSE
            /\ UNCHANGED <<entities, lastTime, lastRun>>
       ELSE LET currentTime == DateNow
                deltaTime == DeltaTime(currentTime, lastTime)
            IN  /\ lastTime' = currentTime
                /\ lastRun' = DateNow
                /\ IF StrategyThrows(strategy)
                   THEN /\ trace' = <<StrategyCall(strategy, entities, deltaTime)>>
                        /\ threw' = TRUE
                        /\ UNCHANGED entities
                   ELSE /\ entities' = StrategyUpdate(strategy, entities, deltaTime)
                        /\ trace' = UpdateCalls(entities, entities', deltaTime)
                        /\ threw' = FALSE

Start ==
    /\ isRunning' = TRUE
    /\ lastTime' = StartBaseline
    /\ lastRun' = DateNow
    /\ op' = "start"
    /\ trace' = <<>>
    /\ threw' = FALSE
    /\ ret' = 0
    /\ UNCHANGED <<entities, nextId, issued, strategy, observers, now, ui>>

Pause ==
    /\ isRunning' = FALSE
    /\ op' = "pause"
    /\ trace' = <<>>
    /\ threw' = FALSE
    /\ ret' = 0
    /\ UNCHANGED <<entities, nextId, issued, strategy, observers, lastTime, now, lastRun, ui>>

Reset ==
    /\ isRunning' = FALSE
    /\ entities' = Cleared.entities
    /\ nextId' = Cleared.nextId
    /\ issued' = <<>>
    /\ trace' = ResetCalls(entities, entities')
    /\ op' = "reset"
    /\ threw' = FALSE
    /\ ret' = 0
    /\ UNCHANGED <<strategy, observers, lastTime, now, lastRun, ui>>

\* Time passes between two calls.
Tick ==
    /\ now < MaxClock
    /\ now' = now + 1
    /\ UNCHANGED <<entities, nextId, issued, strategy, observers, isRunning, lastTime,
                   op, trace, threw, ret, lastRun, ui>>

---------------------------------------------------------------------------
(* The engine as its callers drive it. *)

\* new SimulationEngine(strategy): a new store, no observer, not running.
Init ==
    /\ entities = <<>>
    /\ nextId = 1
    /\ strategy \in {"physics", "circuit"}
    /\ observers = <<>>
    /\ isRunning = FALSE
    /\ now = 0
    /\ lastTime = 0
    /\ op = "new"
    /\ trace = <<>>
    /\ threw = FALSE
    /\ ret = 0
    /\ issued = <<>>
    /\ lastRun = 0
    /\ ui = [mode |-> "physics", isRunning |-> FALSE, stale |-> FALSE]

\* The store has room for one more entity.
Room == nextId <= MaxEntities

Live == 1..Len(entities)

Next ==
    \/ Room /\ Create("circuit")
    \/ \E id \in 1..MaxEntities : Remove(id)
    \/ Clear
    \/ Room /\ CreatePhysicsObject(R(200), R(50), R(1), "Ball")
    \/ Room /\ CreateCircuitResistor(R(150), R(300), R(100))
    \/ Room /\ CreateCircuitBattery(R(50), R(300), R(9))
    \/ Room /\ \E a \in Live, b \in Live : CreateCircuitWire(entities[a], entities[b])
    \/ \E s \in Strategies : SetStrategy(s)
    \/ AddObserver
    \/ Update
    \/ Start
    \/ Pause
    \/ Reset
    \/ Tick

Spec == Init /\ [][Next]_vars

---------------------------------------------------------------------------
(* Claims about the store and the engine, checked under Spec. *)

\* A step of update() itself (op stays "update" while the clock ticks).
UpdateStep == op' = "update" /\ now' = now

\* C1: with no clear() in between, the ids create() returns start at 1 and
\* are strictly increasing, so none is returned twice, a removed entity's id
\* included; the live entities carry distinct ids, each one an id returned.
C1_IdsStrictlyIncreasing ==
    /\ issued # <<>> => issued[1] = 1
    /\ \A j \in 1..Len(issued) : \A k \in 1..Len(issued) : j < k => issued[j] < issued[k]
    /\ \A j \in 1..Len(entities) :
        /\ \E k \in 1..Len(issued) : issued[k] = entities[j].id
        /\ \A k \in 1..Len(entities) : j # k => entities[j].id # entities[k].id

\* create() has returned 2 after the entity with id 1 was removed.
C1_Witness ==
    /\ op = "create"
    /\ ret = 2
    /\ issued = <<1, 2>>
    /\ Len(entities) = 1
    /\ entities[1].id = 2

\* C2: clear() leaves the store empty, and the first create() after it
\* returns an entity with id 1, which is then the only entity of the store.
C2_ClearResets ==
    [][ /\ (op' = "clear" /\ now' = now) => (entities' = <<>> /\ nextId' = 1)
        /\ (issued = <<>> /\ issued' # <<>>) =>
              (ret' = 1 /\ Len(entities') = 1 /\ entities'[1].id = 1 /\ entities = <<>>)
      ]_vars

\* clear() has run on an engine that had been started.
C2_Witness == op = "clear" /\ entities = <<>> /\ nextId = 1 /\ lastTime > 0 /\ isRunning

\* C3: update() on an engine that is not running calls neither the strategy
\* nor an observer, raises nothing and changes neither lastTime nor the store.
C3_PausedUpdateIsNoOp ==
    [][ (UpdateStep /\ ~isRunning) =>
            /\ trace' = <<>>
            /\ ~threw'
            /\ UNCHANGED <<entities, nextId, lastTime, strategy, observers, isRunning>>
      ]_vars

\* update() has run on a stopped engine that had been started earlier, has
\* entities and an observer, and whose clock has moved on since lastTime.
C3_Witness ==
    /\ op = "update"
    /\ ~isRunning
    /\ trace = <<>>
    /\ entities # <<>>
    /\ observers # <<>>
    /\ lastTime > 0
    /\ DateNow > lastTime

\* C4: a running update() calls the active strategy first, once, with all
\* live entities in insertion order; when that call returns it notifies each
\* observer once, in registration order, and each sees the store the strategy
\* left; when the call throws nobody is notified.
C4_StrategyThenObservers ==
    [][ (UpdateStep /\ isRunning) =>
            /\ trace' # <<>>
            /\ trace'[1].ev = "strategy"
            /\ trace'[1].who = strategy
            /\ trace'[1].seen = entities
            /\ Len(trace') = IF threw' THEN 1 ELSE 1 + Len(observers)
            /\ \A k \in 2..Len(trace') :
                /\ trace'[k].ev = "notify"
                /\ trace'[k].who = observers[k - 1]
                /\ trace'[k].seen = entities'
      ]_vars

\* A running update() has moved two entities and then notified two observers.
C4_Witness ==
    /\ op = "update"
    /\ Len(trace) = 3
    /\ Len(trace[1].seen) = 2
    /\ trace[1].seen # trace[2].seen
    /\ trace[3].seen = entities

\* C5: after reset() the engine is not running, the store is empty with
\* nextId 1, and every observer was notified once, in order, of the empty
\* store; nothing else was called.
C5_ResetClearsThenNotifies ==
    op = "reset" =>
        /\ ~isRunning
        /\ entities = <<>>
        /\ nextId = 1
        /\ Len(trace) = Len(observers)
        /\ \A k \in 1..Len(trace) :
            /\ trace[k].ev = "notify"
            /\ trace[k].who = observers[k]
            /\ trace[k].seen = <<>>

\* reset() has run on an engine with two observers that had been started.
C5_Witness == op = "reset" /\ Len(trace) = 2 /\ lastTime > 0 /\ now > 0

\* C6: the deltaTime a running update() passes to the strategy is the time,
\* in seconds, since start() or a running update() was last called.
C6_DeltaSinceStartOrLastUpdate ==
    [][ (UpdateStep /\ isRunning) =>
            /\ trace' # <<>>
            /\ trace'[1].dt = Rat(DateNow - lastRun, 1000)
      ]_vars

\* An update() at 1000 ms has passed half a second to the strategy.
C6_Witness ==
    /\ op = "update"
    /\ trace # <<>>
    /\ trace[1].dt = <<1, 2>>
    /\ now = 2
    /\ lastTime = 1000

\* C7: setStrategy changes the strategy and nothing else; the strategy
\* changes in no other way, and a running update() calls the strategy set.
C7_SetStrategyOnlySwaps ==
    [][ /\ (op' = "setStrategy" /\ now' = now) =>
              UNCHANGED <<entities, nextId, observers, isRunning, lastTime>>
        /\ strategy' # strategy => op' = "setStrategy"
        /\ (UpdateStep /\ isRunning) => (trace' # <<>> /\ trace'[1].who = strategy)
      ]_vars

\* setStrategy has run on a running engine with entities and an observer.
C7_Witness ==
    /\ op = "setStrategy"
    /\ isRunning
    /\ entities # <<>>
    /\ observers # <<>>
    /\ nextId > 1

\* C8: a running update() whose strategy is the base strategy raises an
\* error: the strategy call is the only call made, no observer is notified
\* and the store is as before.
C8_BaseStrategyFailsTick ==
    [][ (UpdateStep /\ isRunning /\ strategy = "base") =>
            /\ threw'
            /\ Len(trace') = 1
            /\ trace'[1].ev = "strategy"
            /\ entities' = entities
      ]_vars

\* A tick of the base strategy has failed with entities and observers present.
C8_Witness ==
    /\ op = "update"
    /\ threw
    /\ trace[1].who = "base"
    /\ entities # <<>>
    /\ Len(observers) = 2

---------------------------------------------------------------------------
(* The circuit strategy on its own: a store filled through the factory, and *)
(* CircuitSimulationStrategy.update applied to all of it.                   *)

\* The circuit store holds at most this many entities.
MaxCircuit == 3

\* strategy.update(repository.getAll(), deltaTime) with the circuit strategy.
CircuitTick(deltaTime) ==
    /\ entities' = CircuitUpdate(entities, deltaTime)
    /\ op' = "circuit.update"
    /\ trace' = <<StrategyCall("circuit", entities, deltaTime)>>
    /\ threw' = FALSE
    /\ ret' = 0
    /\ UNCHANGED <<nextId, issued>>
    /\ EngineUnchanged

CircuitRoom == nextId <= MaxCircuit

InitCircuit == Init /\ strategy = "circuit"

NextCircuit ==
    \/ CircuitRoom /\ \E r \in {-100, 0, 100, 200} :
            CreateCircuitResistor(R(150), R(300), R(r))
    \/ CircuitRoom /\ \E v \in {9, 3} : CreateCircuitBattery(R(50), R(300), R(v))
    \/ CircuitRoom /\ \E a \in Live, b \in Live : CreateCircuitWire(entities[a], entities[b])
    \/ CircuitRoom /\ CreatePhysicsObject(R(200), R(50), R(1), "Pin")
    \/ \E deltaTime \in {R(0), <<1, 2>>} : CircuitTick(deltaTime)

SpecCircuit == InitCircuit /\ [][NextCircuit]_vars

\* The sum of the values of the circuit components of one componentType.
RECURSIVE ValueSum(_, _)
ValueSum(ents, componentType) ==
    IF ents = <<>> THEN R(0)
    ELSE LET e == Head(ents)
             v == IF "circuit" \in DOMAIN e.components
                     /\ e.components["circuit"].componentType = componentType
                  THEN e.components["circuit"].value
                  ELSE R(0)
         IN  RAdd(v, ValueSum(Tail(ents), componentType))

\* Ohm's law on the sums: 0 unless the total resistance is positive.
SeriesCurrent(ents) ==
    IF ValueSum(ents, "resistor")[1] > 0
    THEN RDiv(ValueSum(ents, "battery"), ValueSum(ents, "resistor"))
    ELSE R(0)

CircuitOnes(ents) == {k \in 1..Len(ents) : "circuit" \in DOMAIN ents[k].components}

\* C9: after the circuit update every entity with a circuit component,
\* battery or resistor, carries the current (sum of the battery values) /
\* (sum of the resistor values), or 0 when the resistor sum is not positive.
C9_SeriesCurrent ==
    op = "circuit.update" =>
        \A k \in CircuitOnes(entities) :
            entities[k].components["circuit"].current = SeriesCurrent(entities)

\* 9 V over 100 and 200 ohm: 0.03 A everywhere, 3 V and 6 V on the resistors.
C9_Witness ==
    /\ op = "circuit.update"
    /\ Len(entities) = 3
    /\ \A k \in 1..3 : /\ "circuit" \in DOMAIN entities[k].components
                       /\ entities[k].components["circuit"].current = <<3, 100>>
    /\ \E k \in 1..3 : entities[k].components["circuit"].componentType = "battery"
    /\ \E k \in 1..3 : entities[k].components["circuit"].voltage = R(3)
    /\ \E k \in 1..3 : entities[k].components["circuit"].voltage = R(6)

\* C10: the circuit update gives each resistor the voltage current * value
\* and changes nothing but current and, on resistors, voltage: the entities,
\* their ids, types and component names, every component other than circuit,
\* and the value, componentType and connections of every circuit component
\* and the voltage of every battery stay as they were.
C10_OnlyCurrentAndResistorVoltage ==
    [][ (op' = "circuit.update" /\ now' = now) =>
            /\ Len(entities') = Len(entities)
            /\ \A k \in 1..Len(entities) :
                LET old == entities[k]
                    new == entities'[k]
                IN  /\ new.id = old.id
                    /\ new.type = old.type
                    /\ DOMAIN new.components = DOMAIN old.components
                    /\ \A n \in DOMAIN old.components \ {"circuit"} :
                           new.components[n] = old.components[n]
                    /\ "circuit" \in DOMAIN old.components =>
                        LET c == old.components["circuit"]
                            d == new.components["circuit"]
                        IN  /\ d.value = c.value
                            /\ d.componentType = c.componentType
                            /\ d.connections = c.connections
                            /\ c.componentType = "resistor" =>
                                   d.voltage = RMul(d.current, c.value)
                            /\ c.componentType # "resistor" => d.voltage = c.voltage
      ]_vars

\* A solved circuit: a battery that carries current and still has voltage 0
\* next to a resistor with a voltage drop, a wire and a pin.
C10_Witness ==
    /\ op = "circuit.update"
    /\ \E k \in CircuitOnes(entities) :
        LET c == entities[k].components["circuit"]
        IN  c.componentType = "battery" /\ c.current # R(0) /\ c.voltage = R(0)
    /\ \E k \in CircuitOnes(entities) :
        LET c == entities[k].components["circuit"]
        IN  c.componentType = "resistor" /\ c.voltage # R(0)
    /\ \E k \in 1..Len(entities) : "circuit" \notin DOMAIN entities[k].components

\* The (componentType, value) pairs of the circuit entities, as an unordered
\* collection: the pairs that occur, and how many entities carry each.
PairsOf(ents) ==
    {<<ents[k].components["circuit"].componentType, ents[k].components["circuit"].value>> :
        k \in CircuitOnes(ents)}

Copies(ents, pair) ==
    Cardinality({k \in CircuitOnes(ents) :
        <<ents[k].components["circuit"].componentType,
          ents[k].components["circuit"].value>> = pair})

RECURSIVE PairTotal(_, _, _)
\* The sum of the values of the pairs of one componentType, each taken as
\* often as it occurs.
PairTotal(ents, pairs, componentType) ==
    IF pairs = {} THEN R(0)
    ELSE LET p == CHOOSE q \in pairs : TRUE
             v == IF p[1] = componentType THEN RMul(R(Copies(ents, p)), p[2]) ELSE R(0)
         IN  RAdd(v, PairTotal(ents, pairs \ {p}, componentType))

PairCurrent(ents) ==
    IF PairTotal(ents, PairsOf(ents), "resistor")[1] > 0
    THEN RDiv(PairTotal(ents, PairsOf(ents), "battery"),
              PairTotal(ents, PairsOf(ents), "resistor"))
    ELSE R(0)

\* C11: what the circuit update writes is determined by the unordered
\* collection of (componentType, value) pairs of the circuit entities it is
\* given, whatever deltaTime, the order of the list, the current and voltage
\* solved before, and the wires and other entities in the list; an update
\* that follows an update changes nothing.
C11_MemorylessSolve ==
    [][ (op' = "circuit.update" /\ now' = now) =>
            /\ \A k \in CircuitOnes(entities') :
                LET d == entities'[k].components["circuit"]
                IN  /\ d.current = PairCurrent(entities)
                    /\ d.componentType = "resistor" =>
                           d.voltage = RMul(PairCurrent(entities), d.value)
            /\ op = "circuit.update" => entities' = entities
      ]_vars

\* A circuit solved once, extended by a second resistor of the same value
\* and solved again with a deltaTime of half a second.
C11_Witness ==
    /\ op = "circuit.update"
    /\ trace[1].dt = <<1, 2>>
    /\ \E j \in CircuitOnes(entities) : \E k \in CircuitOnes(entities) :
        /\ j # k
        /\ entities[j].components["circuit"].componentType = "resistor"
        /\ entities[j].components["circuit"] = entities[k].components["circuit"]
        /\ entities[j].components["circuit"].current # R(0)
    /\ \E k \in CircuitOnes(trace[1].seen) :
        /\ trace[1].seen[k].components["circuit"].current # R(0)
        /\ trace[1].seen[k].components["circuit"].current
               # entities[k].components["circuit"].current

---------------------------------------------------------------------------
(* The physics strategy on its own: balls and pins placed through the      *)
(* factory, and PhysicsSimulationStrategy.update applied to all of them.   *)

\* The physics store holds at most this many entities.
MaxBodies == 2

\* new PhysicsComponent(mass, vx, vy): a velocity other than the default.
WithVelocity(e, vx, vy) ==
    [e EXCEPT !.components.physics.vx = vx, !.components.physics.vy = vy]

\* A call the strategy makes on a pair of entities, with the list as it is
\* at the call.
PairCall(name, ents, i, j) ==
    [ev |-> name, who |-> <<ents[i].id, ents[j].id>>, seen |-> ents, dt |-> R(0)]

RECURSIVE CollisionCalls(_, _, _)
\* The calls of collides and resolveCollision the inner forEach of update()
\* makes for entity ents[i], from e = ents[j] on.
CollisionCalls(ents, i, j) ==
    IF j > Len(ents) THEN <<>>
    ELSE IF SkipsPair(ents, i, j) THEN CollisionCalls(ents, i, j + 1)
    ELSE IF collides(ents, i, j)
         THEN <<PairCall("collides", ents, i, j), PairCall("resolveCollision", ents, i, j)>>
              \o CollisionCalls(resolveCollision(ents, i, j), i, j + 1)
         ELSE <<PairCall("collides", ents, i, j)>> \o CollisionCalls(ents, i, j + 1)

RECURSIVE PhysicsCalls(_, _, _)
\* The calls of collides and resolveCollision update() makes from entity
\* ents[i] on.
PhysicsCalls(ents, i, deltaTime) ==
    IF i > Len(ents) THEN <<>>
    ELSE (IF hasComponent(ents[i], "physics") /\ hasComponent(ents[i], "transform")
             /\ hasComponent(ents[i], "tangible")
          THEN CollisionCalls(Integrate(ents, i, deltaTime), i, 1)
          ELSE <<>>)
         \o PhysicsCalls(PhysicsStep(ents, i, deltaTime), i + 1, deltaTime)

\* A ball from the factory, given the velocity (vx, vy).
PlaceBall(x, y, mass, vx, vy) ==
    Registered("createPhysicsObject", WithVelocity(Ball(nextId, x, y, mass), vx, vy),
               <<FactoryCall("createPhysicsObject", <<"Ball">>)>>)

\* strategy.update(repository.getAll(), deltaTime) with the physics strategy,
\* steps half seconds after the call before.
PhysicsTick(steps) ==
    LET deltaTime == Rat(steps, 2)
    IN  /\ now + steps <= MaxClock
        /\ now' = now + steps
        /\ entities' = PhysicsUpdate(entities, deltaTime)
        /\ op' = "physics.update"
        /\ trace' = <<StrategyCall("physics", entities, deltaTime)>>
                        \o PhysicsCalls(entities, 1, deltaTime)
        /\ threw' = FALSE
        /\ ret' = 0
        /\ UNCHANGED <<nextId, issued, strategy, observers, isRunning, lastTime, lastRun, ui>>

\* repo.create('physics').addComponent('physics', new PhysicsComponent(mass)):
\* an entity with a mass and no place.
CreateUnplaced(mass) ==
    Register("create", addComponent(Entity(nextId, "physics"), "physics", PhysicsComponent(mass)))

BodyRoom == nextId <= MaxBodies

\* Where balls are placed, and how fast: in the open, next to each other,
\* above the ground, on the left wall, and next to the right wall under
\* the ground, outside the world.
BallInputs ==
    { <<200, 50, 1, -50, 0>>, <<200, 50, 1, 0, 0>>, <<10, 50, 2, -50, 0>>,
      <<790, 600, 1, 50, 0>>, <<200, 540, 1, -50, 0>>, <<220, 540, 2, -50, 0>> }

InitPhysics == Init /\ strategy = "physics"

NextPhysics ==
    \/ BodyRoom /\ \E b \in BallInputs : PlaceBall(R(b[1]), R(b[2]), R(b[3]), R(b[4]), R(b[5]))
    \/ BodyRoom /\ CreatePhysicsObject(R(215), R(50), R(1), "Pin")
    \/ BodyRoom /\ CreateUnplaced(R(1))
    \/ \E steps \in {0, 1} : PhysicsTick(steps)

SpecPhysics == InitPhysics /\ [][NextPhysics]_vars

---------------------------------------------------------------------------
(* Claims about the physics update.                                        *)

\* The list update() was called with, and its step.
Before == trace[1].seen
StepDt == trace[1].dt

\* The bodies of a list: the entities with physics and transform.
BodiesOf(ents) ==
    {k \in 1..Len(ents) : hasComponent(ents[k], "physics") /\ hasComponent(ents[k], "transform")}

\* Velocity first, position second, written out for body k of ents.
EulerVx(ents, k, dt) ==
    LET p == ents[k].components["physics"]
    IN  RAdd(p.vx, RMul(RDiv(p.fx, p.mass), dt))
EulerVy(ents, k, dt) == RAdd(ents[k].components["physics"].vy, RMul(R(Gravity), dt))
EulerX(ents, k, dt) == RAdd(ents[k].components["transform"].x, RMul(EulerVx(ents, k, dt), dt))
EulerY(ents, k, dt) == RAdd(ents[k].components["transform"].y, RMul(EulerVy(ents, k, dt), dt))

\* The squared distance of two points.
Dist2(x1, y1, x2, y2) ==
    RAdd(RMul(RSub(x2, x1), RSub(x2, x1)), RMul(RSub(y2, y1), RSub(y2, y1)))

\* Body k, once integrated, is clear of every other tangible entity, where
\* that entity was before the update and where it is after it.
TouchesNoBody(pre, post, k) ==
    \A j \in 1..Len(pre) :
        (j # k /\ hasComponent(pre[k], "tangible") /\ hasComponent(pre[j], "tangible")
               /\ hasComponent(pre[j], "transform"))
        => LET sum == RAdd(pre[k].components["tangible"].radius,
                           pre[j].components["tangible"].radius)
               x == EulerX(pre, k, StepDt)
               y == EulerY(pre, k, StepDt)
           IN  /\ RLe(RMul(sum, sum), Dist2(x, y, pre[j].components["transform"].x,
                                                  pre[j].components["transform"].y))
               /\ RLe(RMul(sum, sum), Dist2(x, y, post[j].components["transform"].x,
                                                  post[j].components["transform"].y))

\* Body k, once integrated, is strictly inside the world.
TouchesNoBound(pre, k) ==
    /\ RLt(R(LeftWallX), EulerX(pre, k, StepDt))
    /\ RLt(EulerX(pre, k, StepDt), R(RightWallX))
    /\ RLt(EulerY(pre, k, StepDt), R(GroundY))

\* C12: a body with physics and transform and a positive mass that touches
\* no other body and no world bound leaves one update of size dt with
\* vx' = vx + (fx/mass)*dt, vy' = vy + gravity*dt, x' = x + vx'*dt and
\* y' = y + vy'*dt; from rest and without force that is vy' = g*dt,
\* y' = y + g*dt*dt, with x and vx as they were.
C12_VelocityThenPosition ==
    op = "physics.update" =>
        \A k \in BodiesOf(Before) :
            LET p == Before[k].components["physics"]
                t == Before[k].components["transform"]
                q == entities[k].components["physics"]
                u == entities[k].components["transform"]
            IN  (RLt(R(0), p.mass) /\ TouchesNoBody(Before, entities, k) /\ TouchesNoBound(Before, k))
                => /\ q.vx = EulerVx(Before, k, StepDt)
                   /\ q.vy = EulerVy(Before, k, StepDt)
                   /\ u.x = RAdd(t.x, RMul(q.vx, StepDt))
                   /\ u.y = RAdd(t.y, RMul(q.vy, StepDt))
                   /\ (p.vx = R(0) /\ p.vy = R(0) /\ p.fx = R(0) /\ p.fy = R(0))
                      => /\ q.vy = RMul(R(Gravity), StepDt)
                         /\ u.y = RAdd(t.y, RMul(RMul(R(Gravity), StepDt), StepDt))
                         /\ u.x = t.x
                         /\ q.vx = p.vx

\* A ball at rest fell for half a second next to a ball that moved sideways.
C12_Witness ==
    /\ op = "physics.update"
    /\ StepDt = Rat(1, 2)
    /\ \E k \in BodiesOf(Before) :
        /\ Before[k].components["physics"].vx = R(0)
        /\ Before[k].components["physics"].vy = R(0)
        /\ TouchesNoBody(Before, entities, k) /\ TouchesNoBound(Before, k)
        /\ entities[k].components["physics"].vy = R(49)
        /\ entities[k].components["transform"].y = RAdd(Before[k].components["transform"].y, Rat(49, 2))
    /\ \E k \in BodiesOf(Before) :
        /\ Before[k].components["physics"].vy # R(0)
        /\ TouchesNoBody(Before, entities, k) /\ TouchesNoBound(Before, k)
        /\ entities[k].components["transform"].x # Before[k].components["transform"].x

\* The position of the entity with this id in a list.
IndexOf(ents, id) == CHOOSE k \in 1..Len(ents) : ents[k].id = id

\* The centers of the two entities of a pair are closer than the sum of
\* their radii.
Overlap(ents, pair) ==
    LET a == ents[IndexOf(ents, pair[1])]
        b == ents[IndexOf(ents, pair[2])]
        sum == RAdd(a.components["tangible"].radius, b.components["tangible"].radius)
    IN  RLt(Dist2(a.components["transform"].x, a.components["transform"].y,
                  b.components["transform"].x, b.components["transform"].y),
            RMul(sum, sum))

\* The pairs (A, B) of a list with A a tangible body and B another tangible
\* entity.
OtherTangiblePairs(ents) ==
    { <<ents[i].id, ents[j].id>> :
        i \in {k \in BodiesOf(ents) : hasComponent(ents[k], "tangible")},
        j \in {k \in 1..Len(ents) : hasComponent(ents[k], "tangible")} }
    \ { <<ents[i].id, ents[i].id>> : i \in 1..Len(ents) }

\* C13: during an update the collision test is applied to exactly the pairs
\* (A, B) with A a body with physics, transform and tangible and B another
\* entity with tangible, never to (A, A), and every tested pair closer than
\* the sum of its radii is passed to resolveCollision.
C13_TestsEveryOther ==
    op = "physics.update" =>
        LET tests == {k \in 2..Len(trace) : trace[k].ev = "collides"}
        IN  /\ {trace[k].who : k \in tests} = OtherTangiblePairs(Before)
            /\ \A k \in tests :
                Overlap(trace[k].seen, trace[k].who)
                => /\ k < Len(trace)
                   /\ trace[k + 1].ev = "resolveCollision"
                   /\ trace[k + 1].who = trace[k].who

\* No call of resolveCollision in this update paired body k with another
\* entity: after integration and collision the body is where integration
\* put it.
Undisturbed(k) ==
    \A n \in 2..Len(trace) :
        (trace[n].ev = "resolveCollision" /\ Before[k].id \in {trace[n].who[1], trace[n].who[2]})
        => trace[n].who[1] = trace[n].who[2]

---------------------------------------------------------------------------
(* resolveCollision on its own: a ball A and a second entity B, a ball or  *)
(* a pin, that overlap, and every call of resolveCollision update() could  *)
(* make on them, the call on A and A itself included.                      *)

\* Where B lies relative to A: on A, beside it, and off both axes (at
\* distances 20 and 25, so that distances stay exact).
Offsets == { <<0, 0>>, <<20, 0>>, <<12, 16>>, <<0, -25>> }

\* The velocities A and B start with.
VelocitiesA == { <<-50, 0>>, <<50, 0>>, <<30, 40>>, <<0, 0>> }
VelocitiesB == { <<-50, 0>>, <<50, 0>>, <<0, -50>> }

\* The masses of the balls.
Masses == {1, 2}

InitCollision ==
    /\ \E o \in Offsets, va \in VelocitiesA, ma \in Masses :
        \/ \E vb \in VelocitiesB, mb \in Masses :
            entities = << WithVelocity(Ball(1, R(200), R(50), R(ma)), R(va[1]), R(va[2])),
                          WithVelocity(Ball(2, R(200 + o[1]), R(50 + o[2]), R(mb)),
                                       R(vb[1]), R(vb[2])) >>
        \/ entities = << WithVelocity(Ball(1, R(200), R(50), R(ma)), R(va[1]), R(va[2])),
                         Pin(2, R(200 + o[1]), R(50 + o[2])) >>
    /\ nextId = 3
    /\ issued = <<1, 2>>
    /\ strategy = "physics"
    /\ observers = <<>>
    /\ isRunning = FALSE
    /\ now = 0
    /\ lastTime = 0
    /\ op = "new"
    /\ trace = <<>>
    /\ threw = FALSE
    /\ ret = 0
    /\ lastRun = 0
    /\ ui = [mode |-> "physics", isRunning |-> FALSE, stale |-> FALSE]

\* this.resolveCollision(entity, e), called as update() calls it: on an
\* entity with physics, transform and tangible and a tangible e it collides
\* with.
Resolve(a, b) ==
    /\ hasComponent(entities[a], "physics")
    /\ hasComponent(entities[a], "transform")
    /\ hasComponent(entities[a], "tangible")
    /\ hasComponent(entities[b], "tangible")
    /\ collides(entities, a, b)
    /\ entities' = resolveCollision(entities, a, b)
    /\ op' = "resolveCollision"
    /\ trace' = <<PairCall("resolveCollision", entities, a, b)>>
    /\ threw' = FALSE
    /\ ret' = 0
    /\ UNCHANGED <<nextId, issued>>
    /\ EngineUnchanged

NextCollision == \E a \in Live, b \in Live : Resolve(a, b)

SpecCollision == InitCollision /\ [][NextCollision]_vars

---------------------------------------------------------------------------
(* Claims about resolveCollision.                                          *)

\* The list resolveCollision was called on, and the positions of entityA
\* and entityB in it.
Hit == trace[1].seen
HitA == IndexOf(Hit, trace[1].who[1])
HitB == IndexOf(Hit, trace[1].who[2])

\* The vector from the center of A to the center of B at the call.
HitDx == RSub(Hit[HitB].components["transform"].x, Hit[HitA].components["transform"].x)
HitDy == RSub(Hit[HitB].components["transform"].y, Hit[HitA].components["transform"].y)

\* The squared distance of the centers at the call.
HitDist2 == RAdd(RMul(HitDx, HitDx), RMul(HitDy, HitDy))

\* The scalar product of two vectors.
Dot(ax, ay, bx, by) == RAdd(RMul(ax, bx), RMul(ay, by))

\* Mass times velocity, summed over the two bodies, along x and along y.
MomentumX(ents, a, b) ==
    RAdd(RMul(ents[a].components["physics"].mass, ents[a].components["physics"].vx),
         RMul(ents[b].components["physics"].mass, ents[b].components["physics"].vx))
MomentumY(ents, a, b) ==
    RAdd(RMul(ents[a].components["physics"].mass, ents[a].components["physics"].vy),
         RMul(ents[b].components["physics"].mass, ents[b].components["physics"].vy))

\* Twice the kinetic energy of a body, and of two bodies.
TwiceEnergyOf(p) == RMul(p.mass, Dot(p.vx, p.vy, p.vx, p.vy))
TwiceEnergy(ents, a, b) ==
    RAdd(TwiceEnergyOf(ents[a].components["physics"]), TwiceEnergyOf(ents[b].components["physics"]))

\* The call was on two distinct overlapping balls with distinct centers.
MobileHit ==
    /\ op = "resolveCollision"
    /\ HitA # HitB
    /\ hasComponent(Hit[HitA], "physics") /\ hasComponent(Hit[HitB], "physics")
    /\ HitDist2 # R(0)
    /\ Overlap(Hit, trace[1].who)

\* The two balls approach each other along the normal: the velocity of B
\* relative to A points against the vector from A to B.
Approaching ==
    LET pA == Hit[HitA].components["physics"]
        pB == Hit[HitB].components["physics"]
    IN  RLt(Dot(RSub(pB.vx, pA.vx), RSub(pB.vy, pA.vy), HitDx, HitDy), R(0))

\* Equal masses, opposite velocities of equal speed, both along the line of
\* centers.
HeadOn ==
    LET pA == Hit[HitA].components["physics"]
        pB == Hit[HitB].components["physics"]
    IN  /\ pA.mass = pB.mass
        /\ pB.vx = RSub(R(0), pA.vx) /\ pB.vy = RSub(R(0), pA.vy)
        /\ RMul(pA.vx, HitDy) = RMul(pA.vy, HitDx)

\* C14: resolveCollision on two overlapping balls with distinct centers
\* that approach each other along the normal preserves total momentum and
\* total kinetic energy; with equal masses and opposite velocities of equal
\* speed along the line of centers the two velocities are swapped.
C14_ElasticImpulse ==
    (MobileHit /\ Approaching) =>
        /\ MomentumX(entities, HitA, HitB) = MomentumX(Hit, HitA, HitB)
        /\ MomentumY(entities, HitA, HitB) = MomentumY(Hit, HitA, HitB)
        /\ TwiceEnergy(entities, HitA, HitB) = TwiceEnergy(Hit, HitA, HitB)
        /\ HeadOn =>
            /\ entities[HitA].components["physics"].vx = Hit[HitB].components["physics"].vx
            /\ entities[HitA].components["physics"].vy = Hit[HitB].components["physics"].vy
            /\ entities[HitB].components["physics"].vx = Hit[HitA].components["physics"].vx
            /\ entities[HitB].components["physics"].vy = Hit[HitA].components["physics"].vy

\* Two balls of masses 1 and 2 met off both axes and both changed velocity.
C14_Witness ==
    /\ MobileHit /\ Approaching
    /\ Hit[HitA].components["physics"].mass # Hit[HitB].components["physics"].mass
    /\ HitDx # R(0) /\ HitDy # R(0)
    /\ entities[HitA].components["physics"].vx # Hit[HitA].components["physics"].vx
    /\ entities[HitB].components["physics"].vy # Hit[HitB].components["physics"].vy

\* The call was on a ball A and an overlapping pin B with another center.
PinHit ==
    /\ op = "resolveCollision"
    /\ hasComponent(Hit[HitA], "physics")
    /\ ~hasComponent(Hit[HitB], "physics")
    /\ hasComponent(Hit[HitB], "tangible") /\ hasComponent(Hit[HitB], "transform")
    /\ HitDist2 # R(0)
    /\ Overlap(Hit, trace[1].who)

\* C15: when a ball A collides with a pin B (tangible and transform, no
\* physics), A is moved back along the normal until the centers are the
\* sum of the radii apart, A's velocity is reflected at the normal,
\* v' = v - 2(v.n)n, when A was moving toward B, and B is left as it was,
\* without a physics component.
C15_PinReflects ==
    PinHit =>
        LET tA == Hit[HitA].components["transform"]
            pA == Hit[HitA].components["physics"]
            uA == entities[HitA].components["transform"]
            qA == entities[HitA].components["physics"]
            uB == entities[HitB].components["transform"]
            sum == RAdd(Hit[HitA].components["tangible"].radius,
                        Hit[HitB].components["tangible"].radius)
            toward == Dot(pA.vx, pA.vy, HitDx, HitDy)
        IN  /\ Dist2(uA.x, uA.y, uB.x, uB.y) = RMul(sum, sum)
            /\ RMul(RSub(uA.x, tA.x), HitDy) = RMul(RSub(uA.y, tA.y), HitDx)
            /\ RLt(Dot(RSub(uA.x, tA.x), RSub(uA.y, tA.y), HitDx, HitDy), R(0))
            /\ RLt(R(0), toward) =>
                /\ qA.vx = RSub(pA.vx, RDiv(RMul(RMul(R(2), toward), HitDx), HitDist2))
                /\ qA.vy = RSub(pA.vy, RDiv(RMul(RMul(R(2), toward), HitDy), HitDist2))
            /\ entities[HitB] = Hit[HitB]
            /\ ~hasComponent(entities[HitB], "physics")

\* A ball that moved toward a pin off both axes was put back and sent away.
C15_Witness ==
    /\ PinHit
    /\ HitDx # R(0) /\ HitDy # R(0)
    /\ RLt(R(0), Dot(Hit[HitA].components["physics"].vx, Hit[HitA].components["physics"].vy,
                     HitDx, HitDy))
    /\ entities[HitA].components["physics"].vx # Hit[HitA].components["physics"].vx
    /\ entities[HitA].components["transform"].x # Hit[HitA].components["transform"].x
    /\ RLt(Dot(entities[HitA].components["physics"].vx, entities[HitA].components["physics"].vy,
               HitDx, HitDy), R(0))

\* C16: resolveCollision on two entities whose centers coincide, an entity
\* and itself included, returns without an error and leaves the positions
\* and velocities of both as they were.
C16_CoincidentUntouched ==
    (op = "resolveCollision" /\ HitDist2 = R(0)) =>
        /\ ~threw
        /\ entities = Hit

\* A call on two balls at the same place with different velocities left
\* both as they were.
C16_Witness ==
    /\ op = "resolveCollision"
    /\ HitDist2 = R(0)
    /\ entities = Hit
    /\ HitA # HitB
    /\ hasComponent(Hit[HitB], "physics")
    /\ Hit[HitB].components["physics"].vx # Hit[HitA].components["physics"].vx

---------------------------------------------------------------------------
(* Scene setup (levels.js) and the factory, on one store.                  *)

\* Free factory calls are made while fewer than this many ids are issued.
MaxMade == 2

\* A setup runs when the store stays within this many issued ids.
MaxScene == 5

\* A repository inside a setup: its Map, its nextId and whether a factory
\* call on it threw.
StoreOf(ents, id) == [entities |-> ents, nextId |-> id, threw |-> FALSE]

\* repo.create(type) followed by the addComponent calls that make it `made`.
StoreAdd(store, made) ==
    [store EXCEPT !.entities = MapSet(@, made), !.nextId = NextIdAfterCreate(@)]

\* BasicPhysicsSetup.initialize(repo)
BasicPhysicsSetup(store) ==
    LET first == StoreAdd(store, Ball(store.nextId, R(200), R(50), R(1)))
    IN  StoreAdd(first, Ball(first.nextId, R(400), R(100), R(2)))

RECURSIVE WireLoop_KeepsFirst(_, _, _, _)
\* The loop without `a = b`: every wire starts at the first entity found.
WireLoop_KeepsFirst(store, found, k, a) ==
    IF k > Len(found) THEN store
    ELSE IF a = 0 THEN WireLoop_KeepsFirst(store, found, k + 1, k)
    ELSE IF hasComponent(found[a], "transform") /\ hasComponent(found[k], "transform")
         THEN WireLoop_KeepsFirst(StoreAdd(store, Wire(store.nextId, found[a], found[k])),
                                  found, k + 1, a)
         ELSE [StoreAdd(store, WireStub(store.nextId)) EXCEPT !.threw = TRUE]

RECURSIVE WireLoop(_, _, _, _)
\* The forEach of BasicCircuitSetup.initialize over the array findByType
\* returned, from found[k] on; a is the position of the entity seen last,
\* 0 for null. A createCircuitWire that throws ends the loop.
WireLoop(store, found, k, a) ==
    IF k > Len(found) THEN store
    ELSE IF a = 0 THEN WireLoop(store, found, k + 1, k)
    ELSE IF hasComponent(found[a], "transform") /\ hasComponent(found[k], "transform")
         THEN WireLoop(StoreAdd(store, Wire(store.nextId, found[a], found[k])),
                       found, k + 1, k)
         ELSE [StoreAdd(store, WireStub(store.nextId)) EXCEPT !.threw = TRUE]

\* BasicCircuitSetup.initialize(repo)
BasicCircuitSetup(store) ==
    LET battery == StoreAdd(store, Battery(store.nextId, R(50), R(300), R(9)))
        first == StoreAdd(battery, Resistor(battery.nextId, R(150), R(300), R(100)))
        second == StoreAdd(first, Resistor(first.nextId, R(250), R(300), R(200)))
    IN  WireLoop(second, findByType(second.entities, "circuit"), 1, 0)

\* setupRef.current.initialize(engineRef.current.repository)
Initialize(setup) ==
    LET done == IF setup = "physics" THEN BasicPhysicsSetup(StoreOf(entities, nextId))
                ELSE BasicCircuitSetup(StoreOf(entities, nextId))
    IN  /\ done.nextId <= MaxScene + 1
        /\ entities' = done.entities
        /\ nextId' = done.nextId
        /\ issued' = issued \o [k \in 1..(done.nextId - nextId) |-> nextId + k - 1]
        /\ op' = "initialize"
        /\ trace' = <<FactoryCall("initialize", <<setup>>)>>
        /\ threw' = done.threw
        /\ ret' = 0
        /\ EngineUnchanged

\* entity.addComponent('transform', new TransformComponent(x, y)) on the
\* entity entities[k]: its transform is replaced.
AddTransform(k, x, y) ==
    /\ entities' = [entities EXCEPT ![k] = addComponent(@, "transform", TransformComponent(x, y))]
    /\ op' = "addComponent"
    /\ trace' = <<>>
    /\ threw' = FALSE
    /\ ret' = 0
    /\ UNCHANGED <<nextId, issued>>
    /\ EngineUnchanged

SceneRoom == nextId <= MaxMade

InitScene == Init /\ strategy = "physics"

\* The factory calls of a scene.
FactoryCalls ==
    \/ \E type \in {"Ball", "Pin", "Box"} : CreatePhysicsObject(R(200), R(50), R(1), type)
    \/ CreateCircuitResistor(R(150), R(300), R(100))
    \/ CreateCircuitBattery(R(50), R(300), R(9))
    \/ Create("circuit")
    \/ \E a \in Live, b \in Live : CreateCircuitWire(entities[a], entities[b])

\* The factory on a store whose entities are also moved and removed, one
\* by one or all at once.
NextFactory ==
    \/ SceneRoom /\ FactoryCalls
    \/ \E id \in 1..MaxMade : Remove(id)
    \/ Clear
    \/ \E k \in Live : AddTransform(k, R(60), R(60))

SpecFactory == InitScene /\ [][NextFactory]_vars

\* One more id is left for a wire between the entities made.
WireRoom == nextId <= MaxMade + 1

\* Wires between balls and resistors, and everything that can happen to the
\* ends of a wire afterwards.
NextWire ==
    \/ SceneRoom /\ CreatePhysicsObject(R(200), R(50), R(1), "Ball")
    \/ SceneRoom /\ CreateCircuitResistor(R(150), R(300), R(100))
    \/ WireRoom /\ \E a \in Live, b \in Live : CreateCircuitWire(entities[a], entities[b])
    \/ \E id \in 1..MaxMade : Remove(id)
    \/ \E k \in Live : ~hasComponent(entities[k], "wire") /\ AddTransform(k, R(60), R(60))
    \/ PhysicsTick(MaxClock)
    \/ CircuitTick(<<1, 2>>)

SpecWire == InitScene /\ [][NextWire]_vars

\* The setups, run after any history of the store.
NextScene ==
    \/ SceneRoom /\ FactoryCalls
    \/ \E id \in 1..MaxScene : Remove(id)
    \/ Clear
    \/ PhysicsTick(1)
    \/ CircuitTick(<<1, 2>>)
    \/ \E setup \in {"physics", "circuit"} : Initialize(setup)

SpecScene == InitScene /\ [][NextScene]_vars

---------------------------------------------------------------------------
(* Claims about the factory and the setups.                                *)

\* The component names of an archetype.
BallBundle == {"transform", "physics", "render", "tangible", "draggable"}
PinBundle == {"transform", "render", "tangible", "draggable"}
CircuitBundle == {"transform", "circuit", "render"}

\* The ids of the entities of a list.
IdsOf(ents) == {ents[k].id : k \in 1..Len(ents)}

\* The entity with this id in a list.
ById(ents, id) == ents[IndexOf(ents, id)]

\* C18: every factory call with a defined archetype adds exactly one new
\* entity to the store and leaves the others alone, and the new entity has
\* the components of its archetype and no other: a Ball transform, physics,
\* render, tangible and draggable, a Pin the same without physics, a
\* resistor and a battery transform, circuit and render. Every stored
\* entity with a physics component has a transform component.
C18_FixedBundles ==
    [][ /\ (\/ op' = "createPhysicsObject" /\ trace'[1].who[1] \in {"Ball", "Pin"}
            \/ op' \in {"createCircuitResistor", "createCircuitBattery", "createCircuitWire"})
           => /\ Len(entities') = Len(entities) + 1
              /\ SubSeq(entities', 1, Len(entities)) = entities
              /\ entities'[Len(entities')].id \notin IdsOf(entities)
              /\ LET made == DOMAIN entities'[Len(entities')].components
                 IN  /\ (op' = "createPhysicsObject" /\ trace'[1].who[1] = "Ball")
                        => made = BallBundle
                     /\ (op' = "createPhysicsObject" /\ trace'[1].who[1] = "Pin")
                        => made = PinBundle
                     /\ op' \in {"createCircuitResistor", "createCircuitBattery"}
                        => /\ made = CircuitBundle
                           /\ entities'[Len(entities')].components["circuit"].componentType
                                = (IF op' = "createCircuitResistor" THEN "resistor" ELSE "battery")
        /\ \A k \in 1..Len(entities') :
            hasComponent(entities'[k], "physics") => hasComponent(entities'[k], "transform")
      ]_vars

\* A Pin was made next to a Ball: the one has a physics component, the
\* other has none.
C18_Witness ==
    /\ op = "createPhysicsObject"
    /\ trace[1].who = <<"Pin">>
    /\ Len(entities) = 2
    /\ DOMAIN entities[1].components = BallBundle
    /\ DOMAIN entities[2].components = PinBundle
    /\ entities[2].id \notin IdsOf(trace[1].seen)

\* C19: the wire component createCircuitWire makes holds the x and y of
\* the transforms its two endpoints have at the call, and no step changes
\* the wire component of an entity that stays in the store: no strategy
\* update, no new transform of an endpoint, no removal of an endpoint.
C19_WireIsSnapshot ==
    [][ /\ (op' = "createCircuitWire" /\ ~threw')
           => LET start == ById(entities, trace'[1].who[1]).components["transform"]
                  end == ById(entities, trace'[1].who[2]).components["transform"]
              IN  entities'[Len(entities')].components["wire"]
                    = [startx |-> start.x, starty |-> start.y, endx |-> end.x, endy |-> end.y]
        /\ \A k \in 1..Len(entities), j \in 1..Len(entities') :
            (hasComponent(entities[k], "wire") /\ entities'[j].id = entities[k].id)
            => /\ hasComponent(entities'[j], "wire")
               /\ entities'[j].components["wire"] = entities[k].components["wire"]
      ]_vars

\* A wire from the resistor at (150, 300) to the ball at (200, 50) is in
\* the store as it was made, after the resistor was removed and the physics
\* update moved the ball.
C19_Witness ==
    /\ op = "physics.update"
    /\ \E k \in 1..Len(entities) :
        /\ hasComponent(entities[k], "wire")
        /\ entities[k].components["wire"] = [startx |-> R(150), starty |-> R(300),
                                             endx |-> R(200), endy |-> R(50)]
    /\ \A j \in 1..Len(entities) : ~hasComponent(entities[j], "circuit")
    /\ \E j \in 1..Len(entities) :
        /\ hasComponent(entities[j], "physics")
        /\ entities[j].components["transform"].y # R(50)

\* What a setup leaves in a newly constructed store.
OnNewStore(setup) ==
    IF setup = "physics" THEN BasicPhysicsSetup(StoreOf(<<>>, 1))
    ELSE BasicCircuitSetup(StoreOf(<<>>, 1))

\* The wire component of entity w joins the places of entities a and b.
Joins(ents, w, a, b) ==
    /\ DOMAIN ents[w].components = {"transform", "render", "wire"}
    /\ ents[w].components["wire"]
         = [startx |-> ents[a].components["transform"].x,
            starty |-> ents[a].components["transform"].y,
            endx |-> ents[b].components["transform"].x,
            endy |-> ents[b].components["transform"].y]

\* C20: initialize on a store that was just cleared (or just constructed)
\* does not throw and leaves what it leaves in a newly constructed store.
\* BasicPhysicsSetup leaves two balls with ids 1 and 2; BasicCircuitSetup
\* leaves five entities with ids 1 to 5, a battery, two resistors, a wire
\* from 1 to 2 and a wire from 2 to 3.
C20_SetupReproducible ==
    [][ (op' = "initialize" /\ op \in {"clear", "new"})
        => /\ ~threw'
           /\ entities' = OnNewStore(trace'[1].who[1]).entities
           /\ nextId' = OnNewStore(trace'[1].who[1]).nextId
           /\ trace'[1].who[1] = "physics"
              => /\ Len(entities') = 2
                 /\ \A k \in 1..2 : /\ entities'[k].id = k
                                    /\ entities'[k].type = "physics"
                                    /\ DOMAIN entities'[k].components = BallBundle
                 /\ entities'[1].components["transform"] = TransformComponent(R(200), R(50))
                 /\ entities'[2].components["transform"] = TransformComponent(R(400), R(100))
                 /\ entities'[1].components["physics"].mass = R(1)
                 /\ entities'[2].components["physics"].mass = R(2)
           /\ trace'[1].who[1] = "circuit"
              => /\ Len(entities') = 5
                 /\ \A k \in 1..5 : entities'[k].id = k /\ entities'[k].type = "circuit"
                 /\ \A k \in 1..3 : DOMAIN entities'[k].components = CircuitBundle
                 /\ entities'[1].components["circuit"].componentType = "battery"
                 /\ entities'[1].components["circuit"].value = R(9)
                 /\ entities'[2].components["circuit"].componentType = "resistor"
                 /\ entities'[2].components["circuit"].value = R(100)
                 /\ entities'[3].components["circuit"].componentType = "resistor"
                 /\ entities'[3].components["circuit"].value = R(200)
                 /\ entities'[1].components["transform"] = TransformComponent(R(50), R(300))
                 /\ entities'[2].components["transform"] = TransformComponent(R(150), R(300))
                 /\ entities'[3].components["transform"] = TransformComponent(R(250), R(300))
                 /\ Joins(entities', 4, 1, 2)
                 /\ Joins(entities', 5, 2, 3)
      ]_vars

\* The circuit setup ran on a store that had been used, run and cleared.
C20_Witness ==
    /\ op = "initialize"
    /\ trace[1].who = <<"circuit">>
    /\ trace[1].seen = <<>>
    /\ now > 0
    /\ Len(entities) = 5
    /\ Joins(entities, 5, 2, 3)


---------------------------------------------------------------------------
(* CanvasRenderer (App.js): what render() does with the entities it is     *)
(* given, as far as the store can tell: which entities it draws and        *)
(* whether it throws.                                                      *)

\* A call on the canvas context for one entity.
DrawCall(name, e) == [ev |-> name, who |-> <<e.id>>, seen |-> <<e>>, dt |-> R(0)]

\* render() reads a field of entity.getComponent('wire') without asking
\* whether the entity has one: for a 'line' without a wire component that
\* is a property read on undefined, a TypeError.
RenderThrows(e) ==
    /\ hasComponent(e, "transform") /\ hasComponent(e, "render")
    /\ getComponent(e, "render").shape = "line"
    /\ ~hasComponent(e, "wire")

\* The body of the forEach of render() for one entity that does not throw:
\* the calls that draw it, none when it is skipped.
Draws(e) ==
    IF ~hasComponent(e, "transform") \/ ~hasComponent(e, "render") THEN <<>>
    ELSE IF getComponent(e, "render").shape = "circle" THEN <<DrawCall("arc", e)>>
    ELSE IF getComponent(e, "render").shape = "rect"
         THEN IF hasComponent(e, "circuit")
              THEN <<DrawCall("fillRect", e), DrawCall("fillText", e)>>
              ELSE <<DrawCall("fillRect", e)>>
    ELSE IF getComponent(e, "render").shape = "line" THEN <<DrawCall("stroke", e)>>
    ELSE <<>>

RECURSIVE render(_, _)
\* render(entities) from entities[k] on: the calls made, and whether an
\* entity made it throw, which ends the forEach.
render(ents, k) ==
    IF k > Len(ents) THEN [threw |-> FALSE, calls |-> <<>>]
    ELSE IF RenderThrows(ents[k]) THEN [threw |-> TRUE, calls |-> <<>>]
    ELSE LET rest == render(ents, k + 1)
         IN  [threw |-> rest.threw, calls |-> Draws(ents[k]) \o rest.calls]

\* rendererRef.current.render(engineRef.current.repository.getAll())
Render ==
    /\ op' = "render"
    /\ trace' = render(entities, 1).calls
    /\ threw' = render(entities, 1).threw
    /\ ret' = 0
    /\ UNCHANGED <<entities, nextId, issued>>
    /\ EngineUnchanged

NextRender ==
    \/ SceneRoom /\ FactoryCalls
    \/ \E id \in 1..MaxMade : Remove(id)
    \/ Clear
    \/ Render

SpecRender == InitScene /\ [][NextRender]_vars

\* C21: render never throws and never changes what it is given, whichever
\* components the entities carry, a render component of a shape without
\* the component the shape needs included.
C21_RenderNeverThrows ==
    [][ op' = "render" => (~threw' /\ entities' = entities /\ nextId' = nextId) ]_vars


---------------------------------------------------------------------------
(* Further claims about the physics update.                                *)

\* C22: an update changes no entity that lacks a physics component or a
\* transform component, and over any sequence of updates a pin stays where
\* it was made and is given no physics component.
C22_OnlyBodiesChange ==
    /\ op = "physics.update" =>
        /\ Len(entities) = Len(Before)
        /\ \A k \in 1..Len(Before) :
            (~hasComponent(Before[k], "physics") \/ ~hasComponent(Before[k], "transform"))
            => entities[k] = Before[k]
    /\ \A k \in 1..Len(entities) :
        (hasComponent(entities[k], "tangible") /\ ~hasComponent(entities[k], "physics"))
        => entities[k] = Pin(entities[k].id, R(215), R(50))

\* Two updates ran, the second for half a second, on a ball overlapping a
\* pin: the ball moved, the pin did not.
C22_Witness ==
    /\ op = "physics.update"
    /\ now = 2
    /\ StepDt = Rat(1, 2)
    /\ \E k \in 1..Len(Before), j \in BodiesOf(Before) :
        /\ hasComponent(Before[k], "tangible") /\ ~hasComponent(Before[k], "physics")
        /\ hasComponent(Before[j], "tangible")
        /\ Overlap(Before, <<Before[j].id, Before[k].id>>)
        /\ entities[j] # Before[j]
        /\ entities[k] = Before[k]


\* The velocity of entityB relative to entityA at the call, scaled by the
\* distance of the centers: its sign is that of the relative velocity
\* along the normal. An entity without physics has no velocity.
HitRelative ==
    LET pA == Hit[HitA].components["physics"]
        vbx == IF hasComponent(Hit[HitB], "physics") THEN Hit[HitB].components["physics"].vx ELSE R(0)
        vby == IF hasComponent(Hit[HitB], "physics") THEN Hit[HitB].components["physics"].vy ELSE R(0)
    IN  Dot(RSub(vbx, pA.vx), RSub(vby, pA.vy), HitDx, HitDy)

\* C23: when two overlapping bodies have a relative velocity along the
\* normal that is separating or zero, resolveCollision changes neither
\* body's position nor velocity.
C23_SeparatingSkipped ==
    (/\ op = "resolveCollision"
     /\ HitA # HitB
     /\ HitDist2 # R(0)
     /\ Overlap(Hit, trace[1].who)
     /\ RLe(R(0), HitRelative))
    => entities = Hit


\* C24: after every update every entity with physics and transform has
\* fx = 0 and fy = 0, and the velocity it gained from gravity in the update
\* is gravity*dt, whatever updates came before: vy' = vy + gravity*dt, with
\* the sign changed when the body was put back on the ground.
C24_ForcesReset ==
    op = "physics.update" =>
        \A k \in BodiesOf(Before) :
            LET q == entities[k].components["physics"]
                gained == RAdd(Before[k].components["physics"].vy, RMul(R(Gravity), StepDt))
            IN  /\ q.fx = R(0)
                /\ q.fy = R(0)
                /\ Undisturbed(k)
                   => q.vy = (IF RLe(R(GroundY), EulerY(Before, k, StepDt))
                              THEN RSub(R(0), gained) ELSE gained)

\* The second of two updates of half a second: a ball that had gained 49
\* in the first gained 49 again.
C24_Witness ==
    /\ op = "physics.update"
    /\ now = 2
    /\ StepDt = Rat(1, 2)
    /\ \E k \in BodiesOf(Before) :
        /\ Before[k].components["physics"].vy = R(49)
        /\ entities[k].components["physics"].vy = R(98)
        /\ entities[k].components["physics"].fy = R(0)


\* C25: a body whose position after integration and collision satisfies
\* 10 <= x <= 800 and y <= 550, a body exactly on a bound included, leaves
\* the update at that position and with the velocity integration gave it.
C25_OnlyWhenExceeded ==
    op = "physics.update" =>
        \A k \in BodiesOf(Before) :
            LET x == EulerX(Before, k, StepDt)
                y == EulerY(Before, k, StepDt)
            IN  (/\ Undisturbed(k)
                 /\ RLe(R(10), x) /\ RLe(x, R(800)) /\ RLe(y, R(550)))
                => /\ entities[k].components["transform"].x = x
                   /\ entities[k].components["transform"].y = y
                   /\ entities[k].components["physics"].vx = EulerVx(Before, k, StepDt)
                   /\ entities[k].components["physics"].vy = EulerVy(Before, k, StepDt)


\* C26: after every update every entity with physics and transform is
\* inside the world, 10 <= x <= 800 and y <= 550, wherever it was before
\* and whatever the other entities are.
C26_InsideWorld ==
    op = "physics.update" =>
        \A k \in BodiesOf(entities) :
            LET u == entities[k].components["transform"]
            IN  /\ RLe(R(10), u.x)
                /\ RLe(u.x, R(800))
                /\ RLe(u.y, R(550))

\* One update brought back a ball that was placed under the ground and
\* left through the right wall, and a ball that left through the left wall.
C26_Witness ==
    /\ op = "physics.update"
    /\ \E k \in BodiesOf(Before) :
        /\ Before[k].components["transform"].x = R(790)
        /\ Before[k].components["transform"].y = R(600)
        /\ entities[k].components["transform"].x = R(800)
        /\ entities[k].components["transform"].y = R(550)
    /\ \E k \in BodiesOf(Before) :
        /\ RLt(EulerX(Before, k, StepDt), R(10))
        /\ entities[k].components["transform"].x = R(10)


---------------------------------------------------------------------------
(* The page (App.js): the buttons and the two effects of the component.
   entities, strategy, observers, isRunning and lastTime are those of the
   engine engineRef.current holds. *)

\* How many entities the Add button adds to a scene.
MaxAdded == 1

Modes == {"physics", "circuit"}

\* setupRef.current.initialize(repository) for the setup of a mode.
SetupOf(mode, store) ==
    IF mode = "physics" THEN BasicPhysicsSetup(store) ELSE BasicCircuitSetup(store)

\* Mutant: handleReset re-seeds without engine.reset().
Reseeded_NoClear(mode, ents, id) == SetupOf(mode, StoreOf(ents, id))

\* handleReset: engine.reset() clears the store, then the setup of the mode
\* the handler closed over is run on it.
Reseeded(mode, ents, id) == SetupOf(mode, StoreOf(Cleared.entities, Cleared.nextId))

\* Mutant: the mode effect keeps the repository of the engine it replaces.
EffectStore_Kept(mode, ents, id) == SetupOf(mode, StoreOf(ents, id))

\* The mode effect: new SimulationEngine(strategy) has a new repository,
\* which the setup of the mode fills.
EffectStore(mode, ents, id) == SetupOf(mode, StoreOf(<<>>, 1))

UICall(name, mode) == [ev |-> name, who |-> mode, seen |-> entities, dt |-> R(0)]

\* The page after its first render and both effects: mode 'physics', the
\* engine constructed by the mode effect with the renderer as its observer,
\* seeded; the animation effect has paused it.
InitUI ==
    /\ ui = [mode |-> "physics", isRunning |-> FALSE, stale |-> FALSE]
    /\ strategy = "physics"
    /\ observers = <<1>>
    /\ entities = EffectStore("physics", <<>>, 1).entities
    /\ nextId = EffectStore("physics", <<>>, 1).nextId
    /\ issued = [k \in 1..(nextId - 1) |-> k]
    /\ isRunning = FALSE
    /\ now = 0
    /\ lastTime = 0
    /\ lastRun = 0
    /\ op = "mount"
    /\ trace = <<>>
    /\ threw = FALSE
    /\ ret = 0

\* The Play/Pause button: setIsRunning(!isRunning), and the animation effect
\* that follows the render: start() and the first animate(), which calls
\* update() at once, or pause().
HandleTogglePlay ==
    /\ ~ui.stale
    /\ ui' = [ui EXCEPT !.isRunning = ~@]
    /\ op' = "handleTogglePlay"
    /\ threw' = FALSE
    /\ ret' = 0
    /\ UNCHANGED <<nextId, issued, strategy, observers, now>>
    /\ IF ~ui.isRunning
       THEN LET deltaTime == DeltaTime(DateNow, StartBaseline)
            IN  /\ isRunning' = TRUE
                /\ lastTime' = DateNow
                /\ lastRun' = DateNow
                /\ entities' = StrategyUpdate(strategy, entities, deltaTime)
                /\ trace' = <<UICall("handleTogglePlay", ui.mode)>>
                              \o UpdateCalls(entities, entities', deltaTime)
       ELSE /\ isRunning' = FALSE
            /\ trace' = <<UICall("handleTogglePlay", ui.mode)>>
            /\ UNCHANGED <<entities, lastTime, lastRun>>

\* One animation frame: animate() calls engine.update().
Frame == ~ui.stale /\ ui.isRunning /\ Update

\* The Reset button: setIsRunning(false), engine.reset(), the setup of the
\* mode on the engine's repository, and the render; the animation effect
\* then pauses the engine, which reset() has paused already.
HandleReset ==
    LET done == Reseeded(ui.mode, entities, nextId)
    IN  /\ ~ui.stale
        /\ ui' = [ui EXCEPT !.isRunning = FALSE]
        /\ isRunning' = FALSE
        /\ entities' = done.entities
        /\ nextId' = done.nextId
        /\ issued' = [k \in 1..(done.nextId - 1) |-> k]
        /\ op' = "handleReset"
        /\ trace' = <<UICall("handleReset", ui.mode)>>
                      \o ResetCalls(entities, Cleared.entities)
        /\ threw' = done.threw
        /\ ret' = 0
        /\ UNCHANGED <<strategy, observers, lastTime, now, lastRun>>

\* The entities the Add button has added since the scene was seeded.
Added == nextId - EffectStore(ui.mode, <<>>, 1).nextId

\* The Add button: a ball (Math.random() * 600 + 100, 50) of mass
\* Math.random() * 2 + 0.5 in physics mode, a resistor at
\* (Math.random() * 400 + 200, 300) otherwise.
HandleAddEntity ==
    /\ ~ui.stale
    /\ Added < MaxAdded
    /\ entities' = MapSet(entities,
                          IF ui.mode = "physics" THEN Ball(nextId, R(300), R(50), R(1))
                          ELSE Resistor(nextId, R(300), R(300), R(100)))
    /\ nextId' = NextIdAfterCreate(nextId)
    /\ issued' = Append(issued, nextId)
    /\ op' = "handleAddEntity"
    /\ trace' = <<UICall("handleAddEntity", ui.mode)>>
    /\ threw' = FALSE
    /\ ret' = 0
    /\ EngineUnchanged

\* A mode button: setIsRunning(false), setMode(newMode), and handleReset(),
\* which still closes over the mode of this render and acts on the engine
\* of this render. The mode effect runs after the render when the mode
\* has changed.
HandleModeChange(newMode) ==
    LET done == Reseeded(ui.mode, entities, nextId)
    IN  /\ ~ui.stale
        /\ ui' = [mode |-> newMode, isRunning |-> FALSE, stale |-> newMode # ui.mode]
        /\ isRunning' = FALSE
        /\ entities' = done.entities
        /\ nextId' = done.nextId
        /\ issued' = [k \in 1..(done.nextId - 1) |-> k]
        /\ op' = "handleModeChange"
        /\ trace' = <<UICall("handleModeChange", ui.mode)>>
                      \o ResetCalls(entities, Cleared.entities)
        /\ threw' = done.threw
        /\ ret' = 0
        /\ UNCHANGED <<strategy, observers, lastTime, now, lastRun>>

\* The mode effect: a new engine with the strategy of the mode, the renderer
\* as its only observer, and the seeds of the mode in its new repository.
ModeEffect ==
    LET done == EffectStore(ui.mode, entities, nextId)
    IN  /\ ui.stale
        /\ ui' = [ui EXCEPT !.stale = FALSE]
        /\ strategy' = ui.mode
        /\ observers' = <<1>>
        /\ isRunning' = FALSE
        /\ lastTime' = DateNow
        /\ entities' = done.entities
        /\ nextId' = done.nextId
        /\ issued' = [k \in 1..(done.nextId - 1) |-> k]
        /\ op' = "modeEffect"
        /\ trace' = <<UICall("modeEffect", ui.mode)>>
        /\ threw' = done.threw
        /\ ret' = 0
        /\ UNCHANGED <<now, lastRun>>

NextUI ==
    \/ HandleTogglePlay
    \/ Frame
    \/ Tick
    \/ HandleReset
    \/ HandleAddEntity
    \/ \E newMode \in Modes : HandleModeChange(newMode)
    \/ ModeEffect

SpecUI == InitUI /\ [][NextUI]_vars

---------------------------------------------------------------------------
(* Claims about the page, checked under SpecUI. *)

\* C27: after the Reset button, whatever Play, Pause, Add and Reset came
\* before, the engine is not running and the store holds exactly the seeds
\* of the current mode, with ids from 1 again: what was added or moved before
\* is gone.
C27_ResetReseeds ==
    op = "handleReset" =>
        /\ ~isRunning
        /\ ~ui.isRunning
        /\ entities = OnNewStore(ui.mode).entities
        /\ nextId = OnNewStore(ui.mode).nextId
        /\ entities[1].id = 1
        /\ \A k \in 1..Len(entities) : entities[k].id = k

\* A reset of a running physics scene in which a ball was added and the
\* seeded balls have fallen.
C27_Witness ==
    /\ op = "handleReset"
    /\ ui.mode = "physics"
    /\ Len(trace[1].seen) > Len(entities)
    /\ trace[1].seen[1].components["transform"].y # R(50)
    /\ entities[1].components["transform"].y = R(50)
    /\ lastRun > 0

\* C28: whenever the mode effect has run, the strategy of the engine is that
\* of the selected mode and every entity of its store has the type of the
\* mode: no entity of the mode before survives a switch.
C28_ModeConsistent ==
    ~ui.stale =>
        /\ strategy = ui.mode
        /\ \A k \in 1..Len(entities) : entities[k].type = ui.mode

\* The mode effect has just run for circuit mode, after a physics scene
\* with an added ball.
C28_Witness ==
    /\ op = "modeEffect"
    /\ ui.mode = "circuit"
    /\ strategy = "circuit"
    /\ Len(trace[1].seen) > 0
    /\ \A k \in 1..Len(trace[1].seen) : trace[1].seen[k].type = "physics"
    /\ Len(entities) = 5


---------------------------------------------------------------------------
(* A claim about the factory, checked under SpecFactory. *)

\* C29: createPhysicsObject with a type other than 'Ball' and 'Pin' creates
\* no entity, leaves the id allocation of the store where it was, returns no
\* entity and raises no error.
C29_UnknownTypeMakesNothing ==
    [][ (op' = "createPhysicsObject" /\ trace'[1].who[1] \notin {"Ball", "Pin"}) =>
            /\ entities' = entities
            /\ nextId' = nextId
            /\ issued' = issued
            /\ ret' = 0
            /\ ~threw' ]_vars

\* A call with type 'Box' on a store that holds an entity.
C29_Witness ==
    /\ op = "createPhysicsObject"
    /\ trace[1].who = <<"Box">>
    /\ trace[1].seen = entities
    /\ Len(entities) > 0
    /\ nextId <= MaxMade
    /\ ret = 0
    /\ ~threw


---------------------------------------------------------------------------
(* Entity.hasAll on entities that are given components one by one. *)

\* The longest list of names hasAll is called with.
MaxNames == 2

\* Component names: two the factory uses, and one that reads as an index.
Names == {"transform", "physics", "0"}

NameLists == UNION {[1..n -> Names] : n \in 0..MaxNames}

ComponentFor(name) ==
    IF name = "transform" THEN TransformComponent(R(200), R(50))
    ELSE IF name = "physics" THEN PhysicsComponent(R(1))
    ELSE PhysicsCollisionComponent(R(20))

\* entities[k].addComponent(name, component)
AddComponent(k, name) ==
    /\ entities' = [entities EXCEPT ![k] = addComponent(@, name, ComponentFor(name))]
    /\ op' = "addComponent"
    /\ trace' = <<>>
    /\ threw' = FALSE
    /\ ret' = 0
    /\ UNCHANGED <<nextId, issued>>
    /\ EngineUnchanged

\* entities[k].hasAll(names); ret is what it returned.
HasAll(k, names) ==
    /\ op' = "hasAll"
    /\ trace' = <<[ev |-> "hasAll", who |-> names, seen |-> entities[k], dt |-> R(0)]>>
    /\ threw' = FALSE
    /\ ret' = hasAll(entities[k], names)
    /\ UNCHANGED <<entities, nextId, issued>>
    /\ EngineUnchanged

NextHasAll ==
    \/ Room /\ Create("physics")
    \/ \E k \in Live, name \in Names : AddComponent(k, name)
    \/ \E k \in Live, names \in NameLists : HasAll(k, names)

SpecHasAll == InitScene /\ [][NextHasAll]_vars

\* C30: hasAll(names) returns true exactly when the entity has a component
\* under every name of the list, and false when a listed name is missing.
C30_HasAllExact ==
    op = "hasAll" =>
        (ret = TRUE <=> \A k \in 1..Len(trace[1].who) :
                            hasComponent(trace[1].seen, trace[1].who[k]))

===========================================================================
